---- MODULE Spec2Model ----
(***************************************************************************)
(* Input-Share (MouseShare): the primary's interception hooks              *)
(* (input_capture.hpp) and the GUI application's primary (server thread    *)
(* and hook callbacks) and secondary (client thread), gui_app.cpp.         *)
(*                                                                         *)
(* Threads are modelled at the granularity of their accesses to shared     *)
(* state: one step per atomic load/store group or critical section.        *)
(***************************************************************************)
EXTENDS Integers, Sequences, FiniteSets, TLC

(***************************************************************************)
(* Bounds of the model.                                                    *)
(***************************************************************************)
ScreenW == 3
ScreenH == 3
MaxWire == 1
MaxTime == 5
MaxDiscTime == 12000

(***************************************************************************)
(* Program constants.  Time is counted in units of 10 000 ms.              *)
(***************************************************************************)
SafetyTimeout == 3

\* the discovery thread's period and the age at which it removes a peer, in ms
DISCOVERY_INTERVAL_MS == 3000
StaleAfter == 10000

\* the console programs, in seconds: the primary's keepalive period, the
\* secondary's idle limit, the end of the modelled time, and the number of
\* frames the connection holds before a send blocks
KEEPALIVE_SECONDS == 5
IDLE_SECONDS == 30
MaxConTime == 36
MaxChan == 2

\* where the layout editor's drag puts a computer
DragX == 20

VARIABLES
    \* InputCapture (input_capture.hpp)
    running_, captured_, last_x_, last_y_, last_activity_,
    hooks,            \* the low-level hooks are installed (hook thread alive)
    hpc,              \* position of the hook thread inside a hook procedure
    cb,               \* locals of the callback in progress
    ev,               \* the hook invocation in progress or last returned
    cursor,           \* the OS cursor position (GetCursorPos / SetCursorPos)
    now,              \* GetTickCount, in units of 10 000 ms
    \* AppState (gui_app.cpp)
    server_running, active_client, active_on_remote, computers,
    srv_pc, client_ip, ui_pc,
    \* the session's byte stream towards the secondary, as frames in flight;
    \* the stream is tracked (link = "stream") in the specifications that
    \* model the secondary reading it
    link, wire,
    \* history of the current REMOTE episode
    episode,
    \* the secondary (client_thread_func): its locals, and the frame it
    \* processed last with what it did for it and the last SCREEN_INFO before it
    sec, rx,
    \* the secondary's session: the client thread and client_connected (cli),
    \* the bytes that have arrived on its socket and are not read yet (stream),
    \* and the peer's end of the connection (tx)
    stream, cli, tx,
    \* the discovery thread (discovery_thread_func) with discovery_running and
    \* the datagrams waiting on its socket
    disc,
    \* history of the two mutexes, layout_mutex ("layout") and
    \* active_client_mutex ("send"): the nested acquisitions made so far and
    \* whether capture_input has been called under the send lock
    mtx,
    \* the console programs: the primary (Server, input_simulator.hpp) with its
    \* accept thread and hook callbacks, the secondary it talks to, the frames
    \* in flight between them and a clock in seconds
    con,
    \* the layout editor (layout_wnd_proc): selected_index, dragging, and the
    \* names of the peer the user grabbed and of the record a drag moved
    layout

capture_vars == <<running_, captured_, last_x_, last_y_, last_activity_, hooks>>
hook_vars == <<hpc, cb, ev>>
app_vars == <<server_running, active_client, active_on_remote, computers,
              srv_pc, client_ip, ui_pc>>
app_vars_but_pc == <<server_running, active_client, active_on_remote, computers,
                     client_ip, ui_pc>>
sec_vars == <<sec, rx, stream, cli, tx>>
prim_vars == <<capture_vars, hook_vars, cursor, app_vars, link, wire, episode>>
sys_vars == <<disc, mtx, con, layout>>
vars == <<capture_vars, hook_vars, cursor, now, app_vars, link, wire, episode,
          sec_vars, sys_vars>>

(***************************************************************************)
(* Values.                                                                 *)
(***************************************************************************)
Xs == 0 .. ScreenW - 1
Ys == 0 .. ScreenH - 1
CenterX == ScreenW \div 2
CenterY == ScreenH \div 2

Min(a, b) == IF a < b THEN a ELSE b
Max(a, b) == IF a > b THEN a ELSE b

LocalName == "A"
PeerName == "B"
PeerIp == "10.0.0.2"
OtherIp == "10.0.0.9"

\* struct ComputerInfo, the fields the focus logic reads
Computer(name, ip, w, h, conn, lx, ly) ==
    [name |-> name, ip |-> ip, screen_width |-> w, screen_height |-> h,
     is_connected |-> conn, layout_x |-> lx, layout_y |-> ly, last_seen |-> 0]

\* AppState::init: the local computer at (0,0)
local_info == Computer(LocalName, "", ScreenW, ScreenH, FALSE, 0, 0)

\* virtual key codes the hooks and callbacks distinguish
EmergencyPlain == {"VK_CONTROL", "VK_LCONTROL", "VK_RCONTROL",
                   "VK_MENU", "VK_LMENU", "VK_RMENU",
                   "VK_DELETE", "VK_SCROLL", "VK_LWIN", "VK_RWIN"}
AllKeys == EmergencyPlain \cup {"VK_ESCAPE", "VK_TAB", "VK_F4", "VK_F8", "VK_A"}

NoCb == [x |-> 0, y |-> 0, dx |-> 0, dy |-> 0,
         at_edge |-> FALSE, edge |-> "NONE", edge_position |-> 0,
         new_state |-> FALSE]

\* the event in the hook procedure; history: remote, that the primary was
\* REMOTE with a session when the hook was entered; called, that the hook
\* invoked the callback of the event
NoEv == [kind |-> "none", vk |-> "", ctrl |-> FALSE, alt |-> FALSE,
         shift |-> FALSE, pressed |-> FALSE, ret |-> "none",
         failed |-> FALSE, sent |-> 0, remote |-> FALSE, called |-> FALSE]

\* the discovery thread before WM_CREATE starts it; now is GetTickCount as the
\* thread reads it, in ms; heard is the time each peer's last datagram arrived
NoDisc == [pc |-> "none", running |-> FALSE, now |-> 0, inbox |-> <<>>,
           heard |-> [n \in {} |-> 0]]

\* history of the two mutexes: nested holds <<outer, inner>> for every
\* acquisition of a mutex made while the other was held ("layout" is
\* layout_mutex, "send" is active_client_mutex)
\* suppress_under_send: capture_input was called inside a scope of
\* active_client_mutex.  send_owner is "hook" while a callback of the hook
\* thread holds active_client_mutex across a send that has not returned
NoMtx == [nested |-> {}, suppress_under_send |-> FALSE, send_owner |-> "none"]

\* the console primary before run(): pc is the position of the thread in
\* Server::run, sock the connection ("none", "pending" before accept returns
\* it, "up", "lost" when the network dropped it, "closed"), chan the frames
\* in flight, first the first frame written on the session, lost that the
\* network failed during it; c_connected, c_last, c_timed_out are the
\* secondary's connected_, last_data_received_ and its idle timeout verdict
NoCon == [pc |-> "off", g_running |-> TRUE, connected_ |-> FALSE,
          active_on_client_ |-> FALSE, last_keepalive_sent_ |-> 0,
          now |-> 0, sock |-> "none", chan |-> <<>>, first |-> "none",
          lost |-> FALSE, c_connected |-> FALSE, c_last |-> 0,
          c_timed_out |-> FALSE]

\* AppState(): nothing selected, no drag; grabbed and moved are history
NoLayout == [selected_index |-> -1, dragging |-> FALSE, grabbed |-> "",
             moved |-> ""]

NoEpisode == [origin |-> "none", exit_edge |-> "NONE", exit_pos |-> 0,
              first |-> "none", switches |-> 0, sw_edge |-> "NONE", sw_pos |-> 0,
              last_send |-> 0, lost |-> FALSE]

(***************************************************************************)
(* Wire frames (common.hpp payload structs).                               *)
(***************************************************************************)
MouseMoveEvent(x, y, dx, dy) ==
    [type |-> "MOUSE_MOVE", x |-> x, y |-> y, dx |-> dx, dy |-> dy]
MouseButtonEvent(button, pressed) ==
    [type |-> "MOUSE_BUTTON", button |-> button, pressed |-> pressed]
MouseScrollEvent(dx, dy) ==
    [type |-> "MOUSE_SCROLL", dx |-> dx, dy |-> dy]
KeyEvent(vk, pressed) ==
    [type |-> IF pressed THEN "KEY_PRESS" ELSE "KEY_RELEASE", vkCode |-> vk,
     scanCode |-> 0, flags |-> 0]
ScreenInfo(w, h) ==
    [type |-> "SCREEN_INFO", width |-> w, height |-> h, x |-> 0, y |-> 0]
SwitchScreenEvent(edge, position) ==
    [type |-> "SWITCH_SCREEN", edge |-> edge, position |-> position]

(***************************************************************************)
(* The frame on the wire (common.hpp, #pragma pack(1), little-endian host). *)
(* A 32-bit field is represented by its two's complement value.             *)
(***************************************************************************)
PROTOCOL_VERSION == 1

\* the enumerators of EventType, MouseButton and ScreenEdge, from value 0 up
EventTypes == <<"UNKNOWN", "MOUSE_MOVE", "MOUSE_BUTTON", "MOUSE_SCROLL",
                "KEY_PRESS", "KEY_RELEASE", "CLIPBOARD", "KEEPALIVE",
                "SCREEN_INFO", "SWITCH_SCREEN">>
MouseButtons == <<"UNKNOWN", "LEFT", "MIDDLE", "RIGHT", "BUTTON4", "BUTTON5">>
ScreenEdges == <<"NONE", "LEFT", "RIGHT", "TOP", "BOTTOM">>
Code(names, n) == (CHOOSE i \in 1 .. Len(names) : names[i] = n) - 1
NameOf(names, c) == IF c + 1 \in 1 .. Len(names) THEN names[c + 1] ELSE "UNKNOWN"

\* memcpy of an n-byte integer, and the views of received bytes as integers
LE(v, n) == [i \in 1 .. n |-> (v \div (256 ^ (i - 1))) % 256]
U16(b, i) == b[i] + 256 * b[i + 1]
S32(b, i) == b[i] + 256 * b[i + 1] + 65536 * b[i + 2]
             + 16777216 * (IF b[i + 3] >= 128 THEN b[i + 3] - 256 ELSE b[i + 3])

\* sizeof of the payload struct of a type; 0 for the types without one
PayloadSize(type) ==
    CASE type = "MOUSE_MOVE" -> 16
      [] type = "MOUSE_BUTTON" -> 2
      [] type = "MOUSE_SCROLL" -> 8
      [] type \in {"KEY_PRESS", "KEY_RELEASE"} -> 12
      [] type = "SCREEN_INFO" -> 16
      [] type = "SWITCH_SCREEN" -> 5
      [] OTHER -> 0

\* the payload struct laid out without #pragma pack(1): SwitchScreenEvent has
\* three padding bytes after edge
PayloadBytesUnpacked(e) ==
    CASE e.type = "MOUSE_MOVE" ->
           LE(e.x, 4) \o LE(e.y, 4) \o LE(e.dx, 4) \o LE(e.dy, 4)
      [] e.type = "MOUSE_BUTTON" ->
           <<Code(MouseButtons, e.button), IF e.pressed THEN 1 ELSE 0>>
      [] e.type = "MOUSE_SCROLL" -> LE(e.dx, 4) \o LE(e.dy, 4)
      [] e.type \in {"KEY_PRESS", "KEY_RELEASE"} ->
           LE(e.vkCode, 4) \o LE(e.scanCode, 4) \o LE(e.flags, 4)
      [] e.type = "SCREEN_INFO" ->
           LE(e.width, 4) \o LE(e.height, 4) \o LE(e.x, 4) \o LE(e.y, 4)
      [] e.type = "SWITCH_SCREEN" ->
           <<Code(ScreenEdges, e.edge), 0, 0, 0>> \o LE(e.position, 4)
      [] OTHER -> <<>>

\* the bytes of the payload struct
PayloadBytes(e) ==
    CASE e.type = "MOUSE_MOVE" ->
           LE(e.x, 4) \o LE(e.y, 4) \o LE(e.dx, 4) \o LE(e.dy, 4)
      [] e.type = "MOUSE_BUTTON" ->
           <<Code(MouseButtons, e.button), IF e.pressed THEN 1 ELSE 0>>
      [] e.type = "MOUSE_SCROLL" -> LE(e.dx, 4) \o LE(e.dy, 4)
      [] e.type \in {"KEY_PRESS", "KEY_RELEASE"} ->
           LE(e.vkCode, 4) \o LE(e.scanCode, 4) \o LE(e.flags, 4)
      [] e.type = "SCREEN_INFO" ->
           LE(e.width, 4) \o LE(e.height, 4) \o LE(e.x, 4) \o LE(e.y, 4)
      [] e.type = "SWITCH_SCREEN" ->
           <<Code(ScreenEdges, e.edge)>> \o LE(e.position, 4)
      [] OTHER -> <<>>

\* serialize_packet(type, payload), timestamp being get_timestamp()
serialize_packet(e, timestamp) ==
    LE(PROTOCOL_VERSION, 2) \o <<Code(EventTypes, e.type)>> \o LE(timestamp, 4)
    \o LE(PayloadSize(e.type), 2) \o PayloadBytes(e)

\* serialize_keepalive()
serialize_keepalive(timestamp) ==
    LE(PROTOCOL_VERSION, 2) \o <<Code(EventTypes, "KEEPALIVE")>>
    \o LE(timestamp, 4) \o LE(0, 2)

\* PacketHeader as the receiver views the 9 bytes it read
ParseHeader(b) ==
    [version |-> U16(b, 1), type |-> NameOf(EventTypes, b[3]),
     payload_size |-> U16(b, 8)]

\* the payload struct as the receiver views the payload bytes,
\* (T*)payload.data(), and the test payload.size() >= sizeof(T)
ParsePayload(type, p) ==
    IF Len(p) < PayloadSize(type) THEN [frame |-> [type |-> type], payload_ok |-> FALSE]
    ELSE [payload_ok |-> TRUE,
          frame |->
            CASE type = "MOUSE_MOVE" ->
                   [type |-> type, x |-> S32(p, 1), y |-> S32(p, 5),
                    dx |-> S32(p, 9), dy |-> S32(p, 13)]
              [] type = "MOUSE_BUTTON" ->
                   [type |-> type, button |-> NameOf(MouseButtons, p[1]),
                    pressed |-> p[2] # 0]
              [] type = "MOUSE_SCROLL" ->
                   [type |-> type, dx |-> S32(p, 1), dy |-> S32(p, 5)]
              [] type \in {"KEY_PRESS", "KEY_RELEASE"} ->
                   [type |-> type, vkCode |-> S32(p, 1), scanCode |-> S32(p, 5),
                    flags |-> S32(p, 9)]
              [] type = "SCREEN_INFO" ->
                   [type |-> type, width |-> S32(p, 1), height |-> S32(p, 5),
                    x |-> S32(p, 9), y |-> S32(p, 13)]
              [] type = "SWITCH_SCREEN" ->
                   [type |-> type, edge |-> NameOf(ScreenEdges, p[1]),
                    position |-> S32(p, 2)]
              [] OTHER -> [type |-> type]]

\* history: what the current REMOTE episode has put on the wire
RecordSent(ep, frame) ==
    [ep EXCEPT
       !.last_send = now,
       !.first = IF ep.first = "none" THEN frame.type ELSE ep.first,
       !.switches = IF frame.type = "SWITCH_SCREEN" THEN Min(2, ep.switches + 1)
                    ELSE ep.switches,
       !.sw_edge = IF frame.type = "SWITCH_SCREEN" THEN frame.edge ELSE ep.sw_edge,
       !.sw_pos = IF frame.type = "SWITCH_SCREEN" THEN frame.position ELSE ep.sw_pos]

\* Socket::send on the session socket.  ok = FALSE is ::send returning <= 0;
\* a blocking send waits while the stream is full.  (History: last_send is
\* the time of the last call, whatever it returned; lost, that a send on the
\* session has failed.)
SocketSend(frame, ok) ==
    /\ UNCHANGED link
    /\ IF ok
       THEN /\ link = "stream" => Len(wire) < MaxWire
            /\ wire' = IF link = "stream" THEN Append(wire, frame) ELSE wire
            /\ episode' = RecordSent(episode, frame)
       ELSE /\ episode' = [episode EXCEPT !.last_send = now, !.lost = TRUE]
            /\ UNCHANGED wire

(***************************************************************************)
(* Edge detection and neighbour lookup of the GUI primary's move callback. *)
(***************************************************************************)
\* gui_app.cpp 350-366: the first matching edge in the order LEFT, RIGHT, TOP, BOTTOM
DetectEdge(x, y) ==
    IF x <= 0 THEN [at_edge |-> TRUE, edge |-> "LEFT", edge_position |-> y]
    ELSE IF x >= local_info.screen_width - 1
         THEN [at_edge |-> TRUE, edge |-> "RIGHT", edge_position |-> y]
    ELSE IF y <= 0 THEN [at_edge |-> TRUE, edge |-> "TOP", edge_position |-> x]
    ELSE IF y >= local_info.screen_height - 1
         THEN [at_edge |-> TRUE, edge |-> "BOTTOM", edge_position |-> x]
    ELSE [at_edge |-> FALSE, edge |-> "NONE", edge_position |-> 0]

\* gui_app.cpp 376-405: is comp positioned at this edge, at this coordinate
AtEdgeOfLocal(comp, edge, edge_position) ==
    LET local_x == local_info.layout_x
        local_y == local_info.layout_y
        local_w == local_info.screen_width
        local_h == local_info.screen_height
    IN  \/ /\ edge = "RIGHT"
           /\ comp.layout_x = local_x + local_w
           /\ comp.layout_y <= local_y + edge_position
           /\ comp.layout_y + comp.screen_height > local_y + edge_position
        \/ /\ edge = "LEFT"
           /\ comp.layout_x + comp.screen_width = local_x
           /\ comp.layout_y <= local_y + edge_position
           /\ comp.layout_y + comp.screen_height > local_y + edge_position
        \/ /\ edge = "BOTTOM"
           /\ comp.layout_y = local_y + local_h
           /\ comp.layout_x <= local_x + edge_position
           /\ comp.layout_x + comp.screen_width > local_x + edge_position
        \/ /\ edge = "TOP"
           /\ comp.layout_y + comp.screen_height = local_y
           /\ comp.layout_x <= local_x + edge_position
           /\ comp.layout_x + comp.screen_width > local_x + edge_position

\* the neighbour loop without its "if (!comp.is_connected) continue"
FoundNeighborConnectedOrNot(comps, edge, edge_position) ==
    \E i \in 1 .. Len(comps) :
        /\ comps[i].name # LocalName
        /\ AtEdgeOfLocal(comps[i], edge, edge_position)

\* gui_app.cpp 369-406: the loop over layout.computers
FoundNeighbor(comps, edge, edge_position) ==
    \E i \in 1 .. Len(comps) :
        /\ comps[i].name # LocalName
        /\ comps[i].is_connected
        /\ AtEdgeOfLocal(comps[i], edge, edge_position)

\* gui_app.cpp 340-412: at_edge, edge and edge_position as the callback holds
\* them when it releases layout_mutex
EdgeCheck(comps, x, y) ==
    LET d == DetectEdge(x, y)
    IN  IF d.at_edge /\ ~FoundNeighbor(comps, d.edge, d.edge_position)
        THEN [d EXCEPT !.at_edge = FALSE]
        ELSE d

\* gui_app.cpp 421-424
OppositeEdge(edge) ==
    IF edge = "RIGHT" THEN "LEFT"
    ELSE IF edge = "LEFT" THEN "RIGHT"
    ELSE IF edge = "TOP" THEN "BOTTOM"
    ELSE IF edge = "BOTTOM" THEN "TOP"
    ELSE "NONE"

(***************************************************************************)
(* InputCapture: the interface the focus logic calls.                      *)
(***************************************************************************)
\* InputCapture::capture_input: the values captured_ and last_activity_ take
capture_input(capture) ==
    /\ captured_' = capture
    /\ last_activity_' = IF capture THEN now ELSE last_activity_

\* InputCapture::warp_cursor
warp_cursor(x, y) ==
    /\ cursor' = <<x, y>>
    /\ last_x_' = x
    /\ last_y_' = y

\* mouse_hook_proc / keyboard_hook_proc: "Update activity timestamp"
TouchActivity == last_activity_' = IF captured_ THEN now ELSE last_activity_

(***************************************************************************)
(* The mouse hook and the GUI primary's mouse callbacks (hook thread).      *)
(***************************************************************************)
\* mouse_hook_proc, WM_MOUSEMOVE, up to the callback's unlocked read of
\* active_client.is_valid()
HookMouseMove(x, y) ==
    /\ hpc = "idle" /\ hooks
    /\ TouchActivity
    /\ cb' = [NoCb EXCEPT !.x = x, !.y = y,
                          !.dx = x - last_x_, !.dy = y - last_y_]
    /\ ev' = [NoEv EXCEPT !.kind = "move", !.ret = "pending",
                          !.remote = active_on_remote /\ active_client,
                          !.called = (x - last_x_ # 0 \/ y - last_y_ # 0)]
    /\ hpc' = IF (x - last_x_ # 0 \/ y - last_y_ # 0) /\ active_client
              THEN "m_layout" ELSE "m_end"
    /\ UNCHANGED <<running_, captured_, last_x_, last_y_, hooks, cursor, now,
                   app_vars, link, wire, episode>>
    /\ UNCHANGED <<sec_vars, sys_vars>>

\* move callback: the block under layout_mutex
MoveLayout ==
    /\ hpc = "m_layout"
    /\ LET d == EdgeCheck(computers, cb.x, cb.y)
       IN  cb' = [cb EXCEPT !.at_edge = d.at_edge, !.edge = d.edge,
                            !.edge_position = d.edge_position]
    /\ hpc' = "m_decide"
    /\ UNCHANGED <<capture_vars, ev, cursor, now, app_vars, link, wire, episode>>
    /\ UNCHANGED <<sec_vars, sys_vars>>

\* move callback: if (at_edge && !active_on_remote) { active_on_remote = true; ...
MoveDecide ==
    /\ hpc = "m_decide"
    /\ IF cb.at_edge /\ ~active_on_remote
       THEN /\ active_on_remote' = TRUE
            /\ episode' = [NoEpisode EXCEPT !.origin = "edge",
                                            !.exit_edge = cb.edge,
                                            !.exit_pos = cb.edge_position,
                                            !.last_send = episode.last_send,
                                            !.lost = episode.lost]
            /\ hpc' = "m_capture"
       ELSE /\ hpc' = IF active_on_remote THEN "m_forward" ELSE "m_end"
            /\ UNCHANGED <<active_on_remote, episode>>
    /\ UNCHANGED <<capture_vars, cb, ev, cursor, now, server_running,
                   active_client, computers, srv_pc, client_ip, ui_pc, link, wire>>
    /\ UNCHANGED <<sec_vars, sys_vars>>

\* move callback: g_app.input_capture.capture_input(true)
MoveCapture ==
    /\ hpc = "m_capture"
    /\ capture_input(TRUE)
    /\ hpc' = "m_switch"
    /\ UNCHANGED <<running_, last_x_, last_y_, hooks, cb, ev, cursor, now,
                   app_vars, link, wire, episode>>
    /\ UNCHANGED <<sec_vars, sys_vars>>

\* move callback: SWITCH_SCREEN under active_client_mutex, then the warp
MoveSwitch ==
    /\ hpc = "m_switch"
    /\ hpc' = "m_end"
    /\ \E ok \in BOOLEAN :
         IF active_client /\ ~ok
         THEN \* send failed: revert and return before the warp
              /\ active_on_remote' = FALSE
              /\ capture_input(FALSE)
              /\ ev' = [ev EXCEPT !.failed = TRUE]
              /\ UNCHANGED <<link, wire, episode, cursor, last_x_, last_y_>>
         ELSE /\ IF active_client
                 THEN SocketSend(SwitchScreenEvent(OppositeEdge(cb.edge),
                                                   cb.edge_position), TRUE)
                 ELSE UNCHANGED <<link, wire, episode>>
              /\ ev' = [ev EXCEPT !.sent = IF active_client THEN 1 ELSE 0]
              /\ warp_cursor(local_info.screen_width \div 2,
                             local_info.screen_height \div 2)
              /\ UNCHANGED <<active_on_remote, captured_, last_activity_>>
    /\ UNCHANGED <<running_, hooks, cb, now, server_running, active_client,
                   computers, srv_pc, client_ip, ui_pc>>
    \* a failed send calls capture_input(false) inside the lock scope
    /\ mtx' = [mtx EXCEPT !.suppress_under_send = @ \/ ev'.failed,
                       !.send_owner = "none"]
    /\ UNCHANGED <<sec_vars, disc, con, layout>>

\* move callback: else if (active_on_remote) { MOUSE_MOVE ... }
MoveForward ==
    /\ hpc = "m_forward"
    /\ hpc' = "m_end"
    /\ IF active_client
       THEN \E ok \in BOOLEAN :
              /\ SocketSend(MouseMoveEvent(cb.x, cb.y, cb.dx, cb.dy), ok)
              /\ active_on_remote' = (ok /\ active_on_remote)
              /\ IF ok THEN UNCHANGED <<captured_, last_activity_>>
                       ELSE capture_input(FALSE)
              /\ ev' = [ev EXCEPT !.failed = ~ok, !.sent = IF ok THEN 1 ELSE 0]
       ELSE UNCHANGED <<link, wire, episode, active_on_remote, captured_,
                        last_activity_, ev>>
    /\ UNCHANGED <<running_, last_x_, last_y_, hooks, cb, cursor, now,
                   server_running, active_client, computers, srv_pc, client_ip,
                   ui_pc>>
    \* a failed send calls capture_input(false) inside the lock scope
    /\ mtx' = [mtx EXCEPT !.suppress_under_send = @ \/ ev'.failed,
                       !.send_owner = "none"]
    /\ UNCHANGED <<sec_vars, disc, con, layout>>

\* a callback of the hook thread has locked active_client_mutex and its send
\* waits for room in the stream
HookSendBlocked ==
    /\ \/ hpc \in {"m_switch", "m_forward"}
       \/ hpc = "k_f8_send" /\ cb.new_state
    /\ active_client /\ link = "stream" /\ Len(wire) >= MaxWire
    /\ mtx.send_owner = "none"
    /\ mtx' = [mtx EXCEPT !.send_owner = "hook"]
    /\ UNCHANGED <<prim_vars, now, sec_vars, disc, con, layout>>

\* button callback (runs whole under active_client_mutex)
HookMouseButton(button, pressed) ==
    /\ hpc = "idle" /\ hooks
    /\ hpc' = "m_end"
    /\ cb' = NoCb
    /\ IF active_on_remote /\ active_client
       THEN \E ok \in BOOLEAN :
              /\ SocketSend(MouseButtonEvent(button, pressed), ok)
              /\ active_on_remote' = ok
              /\ captured_' = (ok /\ captured_)
              /\ ev' = [NoEv EXCEPT !.kind = "button", !.ret = "pending",
                                    !.remote = TRUE, !.called = TRUE,
                                    !.failed = ~ok,
                                    !.sent = IF ok THEN 1 ELSE 0]
       ELSE /\ UNCHANGED <<link, wire, episode, active_on_remote, captured_>>
            /\ ev' = [NoEv EXCEPT !.kind = "button", !.ret = "pending",
                                  !.called = TRUE]
    /\ TouchActivity
    /\ UNCHANGED <<running_, last_x_, last_y_, hooks, cursor, now,
                   server_running, active_client, computers, srv_pc, client_ip,
                   ui_pc>>
    \* a failed send calls capture_input(false) inside the lock scope
    /\ mtx' = [mtx EXCEPT !.suppress_under_send = @ \/ ev'.failed]
    /\ UNCHANGED <<sec_vars, disc, con, layout>>

\* scroll callback (runs whole under active_client_mutex)
HookMouseScroll(dx, dy) ==
    /\ hpc = "idle" /\ hooks
    /\ hpc' = "m_end"
    /\ cb' = NoCb
    /\ IF active_on_remote /\ active_client
       THEN \E ok \in BOOLEAN :
              /\ SocketSend(MouseScrollEvent(dx, dy), ok)
              /\ active_on_remote' = ok
              /\ captured_' = (ok /\ captured_)
              /\ ev' = [NoEv EXCEPT !.kind = "scroll", !.ret = "pending",
                                    !.remote = TRUE, !.called = TRUE,
                                    !.failed = ~ok,
                                    !.sent = IF ok THEN 1 ELSE 0]
       ELSE /\ UNCHANGED <<link, wire, episode, active_on_remote, captured_>>
            /\ ev' = [NoEv EXCEPT !.kind = "scroll", !.ret = "pending",
                                  !.called = TRUE]
    /\ TouchActivity
    /\ UNCHANGED <<running_, last_x_, last_y_, hooks, cursor, now,
                   server_running, active_client, computers, srv_pc, client_ip,
                   ui_pc>>
    \* a failed send calls capture_input(false) inside the lock scope
    /\ mtx' = [mtx EXCEPT !.suppress_under_send = @ \/ ev'.failed]
    /\ UNCHANGED <<sec_vars, disc, con, layout>>

\* mouse_hook_proc: the tail after the callback; return 1 blocks the event,
\* CallNextHookEx lets the OS apply it
MouseHookReturn ==
    /\ hpc = "m_end"
    /\ hpc' = "idle"
    /\ cb' = NoCb
    /\ ev' = [ev EXCEPT !.ret = IF captured_ THEN "block" ELSE "pass"]
    /\ IF ev.kind = "move" /\ ~captured_
       THEN /\ last_x_' = cb.x
            /\ last_y_' = cb.y
            /\ cursor' = <<cb.x, cb.y>>
       ELSE UNCHANGED <<last_x_, last_y_, cursor>>
    /\ UNCHANGED <<running_, captured_, last_activity_, hooks, now, app_vars,
                   link, wire, episode>>
    /\ UNCHANGED <<sec_vars, sys_vars>>

(***************************************************************************)
(* The keyboard hook and the GUI primary's key callback (hook thread).      *)
(***************************************************************************)
\* is_emergency_key without its Alt+Tab line
is_emergency_key_without_alt_tab(vkCode, ctrl_down, alt_down) ==
    \/ vkCode = "VK_DELETE" /\ ctrl_down /\ alt_down
    \/ vkCode \in {"VK_CONTROL", "VK_LCONTROL", "VK_RCONTROL"}
    \/ vkCode \in {"VK_MENU", "VK_LMENU", "VK_RMENU"}
    \/ vkCode = "VK_DELETE"
    \/ vkCode = "VK_SCROLL"
    \/ vkCode = "VK_ESCAPE" /\ ctrl_down /\ alt_down
    \/ vkCode \in {"VK_LWIN", "VK_RWIN"}
    \/ vkCode = "VK_ESCAPE" /\ ctrl_down
    \/ vkCode = "VK_F4" /\ alt_down

\* InputCapture::is_emergency_key
is_emergency_key(vkCode, ctrl_down, alt_down) ==
    \/ vkCode = "VK_DELETE" /\ ctrl_down /\ alt_down
    \/ vkCode \in {"VK_CONTROL", "VK_LCONTROL", "VK_RCONTROL"}
    \/ vkCode \in {"VK_MENU", "VK_LMENU", "VK_RMENU"}
    \/ vkCode = "VK_DELETE"
    \/ vkCode = "VK_SCROLL"
    \/ vkCode = "VK_ESCAPE" /\ ctrl_down /\ alt_down
    \/ vkCode \in {"VK_LWIN", "VK_RWIN"}
    \/ vkCode = "VK_ESCAPE" /\ ctrl_down
    \/ vkCode = "VK_TAB" /\ alt_down
    \/ vkCode = "VK_F4" /\ alt_down

KeyEv(vk, ctrl, alt, shift, pressed, ret) ==
    [NoEv EXCEPT !.kind = "key", !.vk = vk, !.ctrl = ctrl, !.alt = alt,
                 !.shift = shift, !.pressed = pressed, !.ret = ret,
                 !.remote = active_on_remote /\ active_client]

\* keyboard_hook_proc, the emergency branch: released by the hook itself and
\* passed on without the key callback
HookEmergencyKey(vk, ctrl, alt, shift, pressed) ==
    /\ hpc = "idle" /\ hooks
    /\ is_emergency_key(vk, ctrl, alt)
    /\ captured_' = IF \/ vk = "VK_SCROLL" /\ pressed /\ captured_
                       \/ vk = "VK_ESCAPE" /\ ctrl /\ alt /\ pressed
                    THEN FALSE ELSE captured_
    /\ ev' = KeyEv(vk, ctrl, alt, shift, pressed, "pass")
    /\ UNCHANGED <<running_, last_x_, last_y_, last_activity_, hooks, hpc, cb,
                   cursor, now, app_vars, link, wire, episode>>
    /\ UNCHANGED <<sec_vars, sys_vars>>

\* keyboard_hook_proc, a regular key, with the GUI key callback up to its first
\* step that another thread can interleave with
HookKey(vk, ctrl, alt, shift, pressed) ==
    /\ hpc = "idle" /\ hooks
    /\ ~is_emergency_key(vk, ctrl, alt)
    /\ TouchActivity
    /\ cb' = NoCb
    /\ IF vk = "VK_F8" /\ pressed
       THEN \* bool has_client = g_app.active_client.is_valid();
            /\ hpc' = IF active_client THEN "k_f8_toggle" ELSE "k_end"
            /\ ev' = [KeyEv(vk, ctrl, alt, shift, pressed, "pending")
                       EXCEPT !.called = TRUE]
            /\ UNCHANGED <<active_on_remote, captured_, link, wire, episode>>
       ELSE IF vk = "VK_SCROLL" /\ pressed
       THEN \* Scroll Lock branch of the callback
            /\ hpc' = "k_end"
            /\ active_on_remote' = FALSE
            /\ captured_' = IF active_on_remote THEN FALSE ELSE captured_
            /\ ev' = [KeyEv(vk, ctrl, alt, shift, pressed, "pending")
                       EXCEPT !.called = TRUE]
            /\ UNCHANGED <<link, wire, episode>>
       ELSE IF active_on_remote /\ active_client
       THEN \* forward the key under active_client_mutex
            /\ hpc' = "k_end"
            /\ \E ok \in BOOLEAN :
                 /\ SocketSend(KeyEvent(vk, pressed), ok)
                 /\ active_on_remote' = ok
                 /\ captured_' = (ok /\ captured_)
                 /\ ev' = [KeyEv(vk, ctrl, alt, shift, pressed, "pending")
                             EXCEPT !.called = TRUE, !.failed = ~ok,
                                    !.sent = IF ok THEN 1 ELSE 0]
       ELSE /\ hpc' = "k_end"
            /\ ev' = [KeyEv(vk, ctrl, alt, shift, pressed, "pending")
                       EXCEPT !.called = TRUE]
            /\ UNCHANGED <<active_on_remote, captured_, link, wire, episode>>
    /\ UNCHANGED <<running_, last_x_, last_y_, hooks, cursor, now,
                   server_running, active_client, computers, srv_pc, client_ip,
                   ui_pc>>
    \* a failed send calls capture_input(false) inside the lock scope
    /\ mtx' = [mtx EXCEPT !.suppress_under_send = @ \/ ev'.failed]
    /\ UNCHANGED <<sec_vars, disc, con, layout>>

\* key callback, F8: g_app.active_on_remote = !g_app.active_on_remote
KeyF8Toggle ==
    /\ hpc = "k_f8_toggle"
    /\ hpc' = "k_f8_capture"
    /\ active_on_remote' = ~active_on_remote
    /\ cb' = [cb EXCEPT !.new_state = ~active_on_remote]
    /\ episode' = IF ~active_on_remote
                  THEN [NoEpisode EXCEPT !.origin = "f8",
                                         !.last_send = episode.last_send,
                                         !.lost = episode.lost]
                  ELSE episode
    /\ UNCHANGED <<capture_vars, ev, cursor, now, server_running, active_client,
                   computers, srv_pc, client_ip, ui_pc, link, wire>>
    /\ UNCHANGED <<sec_vars, sys_vars>>

\* key callback, F8: capture_input(new_state), no lock held
KeyF8Capture ==
    /\ hpc = "k_f8_capture"
    /\ hpc' = "k_f8_send"
    /\ capture_input(cb.new_state)
    /\ UNCHANGED <<running_, last_x_, last_y_, hooks, cb, ev, cursor, now,
                   app_vars, link, wire, episode>>
    /\ UNCHANGED <<sec_vars, sys_vars>>

\* key callback, F8: SWITCH_SCREEN with the default edge; a failed send only
\* posts a status message
KeyF8Send ==
    /\ hpc = "k_f8_send"
    /\ hpc' = "k_end"
    /\ IF cb.new_state /\ active_client
       THEN \E ok \in BOOLEAN :
              /\ SocketSend(SwitchScreenEvent("LEFT", ScreenH \div 2), ok)
              /\ ev' = [ev EXCEPT !.failed = ~ok, !.sent = IF ok THEN 1 ELSE 0]
       ELSE UNCHANGED <<link, wire, episode, ev>>
    /\ UNCHANGED <<capture_vars, cb, cursor, now, app_vars>>
    /\ mtx' = [mtx EXCEPT !.send_owner = "none"]
    /\ UNCHANGED <<sec_vars, disc, con, layout>>

\* keyboard_hook_proc: the tail after the callback
KeyHookReturn ==
    /\ hpc = "k_end"
    /\ hpc' = "idle"
    /\ cb' = NoCb
    /\ ev' = [ev EXCEPT !.ret = IF captured_ THEN "block" ELSE "pass"]
    /\ UNCHANGED <<capture_vars, cursor, now, app_vars, link, wire, episode>>
    /\ UNCHANGED <<sec_vars, sys_vars>>

(***************************************************************************)
(* The GUI primary's server thread (server_thread_func) and the UI thread.  *)
(***************************************************************************)
SetConnected(comps, ip, value) ==
    IF \E i \in 1 .. Len(comps) : comps[i].ip = ip
    THEN LET k == CHOOSE i \in 1 .. Len(comps) :
                    /\ comps[i].ip = ip
                    /\ \A j \in 1 .. i - 1 : comps[j].ip # ip
         IN  [comps EXCEPT ![k].is_connected = value]
    ELSE comps

\* ID_BTN_START_SERVER
UiStartServer ==
    /\ ui_pc = "idle" /\ ~server_running /\ srv_pc = "off"
    /\ server_running' = TRUE
    /\ srv_pc' = "init"
    /\ UNCHANGED <<capture_vars, hook_vars, cursor, now, active_client,
                   active_on_remote, computers, client_ip, ui_pc, link, wire, episode>>
    /\ UNCHANGED <<sec_vars, sys_vars>>

\* server_thread_func: input_capture.init(), set_callbacks, start(), listen
SrvInit ==
    /\ srv_pc = "init"
    /\ srv_pc' = "loop"
    /\ last_x_' = cursor[1]
    /\ last_y_' = cursor[2]
    /\ running_' = TRUE
    /\ hooks' = TRUE
    /\ UNCHANGED <<captured_, last_activity_, hook_vars, cursor, now,
                   server_running, active_client, active_on_remote, computers,
                   client_ip, ui_pc, link, wire, episode, sec_vars, sys_vars>>

\* while (g_app.server_running) { select(...)
SrvLoop ==
    /\ srv_pc = "loop"
    /\ srv_pc' = IF server_running THEN "select" ELSE "stop"
    /\ UNCHANGED <<capture_vars, hook_vars, cursor, now, server_running,
                   active_client, active_on_remote, computers, client_ip, ui_pc,
                   link, wire, episode, sec_vars, sys_vars>>

\* select timed out: back to the loop condition
SrvSelectTimeout ==
    /\ srv_pc = "select"
    /\ srv_pc' = "loop"
    /\ UNCHANGED <<capture_vars, hook_vars, cursor, now, server_running,
                   active_client, active_on_remote, computers, client_ip, ui_pc,
                   link, wire, episode, sec_vars, sys_vars>>

\* accept: mark the peer with the client's address connected, install
\* active_client and send SCREEN_INFO (its result is not looked at)
SrvAccept(ip) ==
    /\ srv_pc = "select"
    /\ mtx.send_owner = "none"
    /\ ui_pc \notin {"destroy_join", "destroyed"}
    /\ srv_pc' = "keep"
    /\ client_ip' = ip
    /\ computers' = SetConnected(computers, ip, TRUE)
    /\ active_client' = TRUE
    /\ \E ok \in BOOLEAN, g \in {0, -1} :
         \* info.x and info.y are sent uninitialised
         SocketSend([ScreenInfo(local_info.screen_width,
                                local_info.screen_height)
                       EXCEPT !.x = g, !.y = g], ok)
    /\ UNCHANGED <<capture_vars, hook_vars, cursor, now, server_running,
                   active_on_remote, ui_pc, sec_vars, sys_vars>>

\* "Keep connection alive": leaves when the server is stopped or the socket
\* is no longer valid
SrvKeepExit ==
    /\ srv_pc = "keep"
    /\ ~server_running \/ (mtx.send_owner = "none" /\ ~active_client)
    /\ srv_pc' = "mark"
    /\ UNCHANGED <<capture_vars, hook_vars, cursor, now, server_running,
                   active_client, active_on_remote, computers, client_ip, ui_pc,
                   link, wire, episode, sec_vars, sys_vars>>

\* "Mark client as disconnected"
SrvMarkDisconnected ==
    /\ srv_pc = "mark"
    /\ srv_pc' = "close"
    /\ computers' = SetConnected(computers, client_ip, FALSE)
    /\ UNCHANGED <<capture_vars, hook_vars, cursor, now, server_running,
                   active_client, active_on_remote, client_ip, ui_pc, link, wire,
                   episode, sec_vars, sys_vars>>

\* the same without g_app.active_client.close()
SrvCloseLeavingSocket ==
    /\ srv_pc = "close"
    /\ srv_pc' = "reset_focus"
    /\ UNCHANGED <<capture_vars, hook_vars, cursor, now, server_running,
                   active_client, active_on_remote, computers, client_ip, ui_pc,
                   link, wire, episode, sec_vars, sys_vars>>

\* g_app.active_client.close() under active_client_mutex
SrvClose ==
    /\ srv_pc = "close"
    /\ mtx.send_owner = "none"
    /\ srv_pc' = "reset_focus"
    /\ active_client' = FALSE
    /\ wire' = <<>>
    /\ episode' = [episode EXCEPT !.lost = FALSE]
    /\ UNCHANGED <<capture_vars, hook_vars, cursor, now, server_running,
                   active_on_remote, computers, client_ip, ui_pc, link,
                   sec_vars, sys_vars>>

\* g_app.active_on_remote = false
SrvResetFocus ==
    /\ srv_pc = "reset_focus"
    /\ srv_pc' = "reset_capture"
    /\ active_on_remote' = FALSE
    /\ UNCHANGED <<capture_vars, hook_vars, cursor, now, server_running,
                   active_client, computers, client_ip, ui_pc, link, wire,
                   episode, sec_vars, sys_vars>>

\* g_app.input_capture.capture_input(false)
SrvResetCapture ==
    /\ srv_pc = "reset_capture"
    /\ srv_pc' = "loop"
    /\ capture_input(FALSE)
    /\ UNCHANGED <<running_, last_x_, last_y_, hooks, hook_vars, cursor, now,
                   app_vars_but_pc, link, wire, episode, sec_vars, sys_vars>>

\* InputCapture::stop, first half: running_ = false; captured_ = false; WM_QUIT
SrvStop ==
    /\ srv_pc = "stop"
    /\ srv_pc' = "join"
    /\ running_' = FALSE
    /\ captured_' = FALSE
    /\ UNCHANGED <<last_x_, last_y_, last_activity_, hooks, hook_vars, cursor,
                   now, app_vars_but_pc, link, wire, episode, sec_vars, sys_vars>>

\* InputCapture::stop, second half: hook_thread_.join() returns once the hook
\* thread has left its callback and unhooked
SrvJoin ==
    /\ srv_pc = "join"
    /\ hpc = "idle"
    /\ srv_pc' = "off"
    /\ hooks' = FALSE
    /\ UNCHANGED <<running_, captured_, last_x_, last_y_, last_activity_,
                   hook_vars, cursor, now, app_vars_but_pc, link, wire, episode,
                   sec_vars, sys_vars>>

\* ID_BTN_STOP_SERVER: clear the flag, then block in join
UiStopServer ==
    /\ ui_pc = "idle" /\ server_running
    /\ server_running' = FALSE
    /\ ui_pc' = "stopping"
    /\ UNCHANGED <<capture_vars, hook_vars, cursor, now, active_client,
                   active_on_remote, computers, srv_pc, client_ip, link, wire,
                   episode, sec_vars, sys_vars>>

\* ID_BTN_STOP_SERVER after the join: close active_client, mark every
\* computer disconnected
UiStopJoined ==
    /\ ui_pc = "stopping" /\ srv_pc = "off"
    /\ mtx.send_owner = "none"
    /\ ui_pc' = "idle"
    /\ active_client' = FALSE
    /\ computers' = [i \in 1 .. Len(computers) |->
                       [computers[i] EXCEPT !.is_connected = FALSE]]
    /\ wire' = <<>>
    /\ UNCHANGED <<capture_vars, hook_vars, cursor, now, server_running,
                   active_on_remote, srv_pc, client_ip, link, episode, sec_vars, sys_vars>>

\* WM_TIMER with the two lock_guards in the other order
UiTimerSendFirst ==
    /\ ui_pc = "idle"
    /\ server_running => mtx.send_owner = "none"
    /\ mtx' = [mtx EXCEPT !.nested =
                  IF server_running
                     /\ \E i \in 1 .. Len(computers) : computers[i].name = LocalName
                  THEN @ \cup {<<"send", "layout">>} ELSE @]
    /\ UNCHANGED <<prim_vars, now, sec_vars, disc, con, layout>>

\* WM_TIMER: rebuild the computer list under layout_mutex; the row of the local
\* computer of a running server reads the session under active_client_mutex
UiTimer ==
    /\ ui_pc = "idle"
    /\ server_running => mtx.send_owner = "none"
    /\ mtx' = [mtx EXCEPT !.nested =
                  IF server_running
                     /\ \E i \in 1 .. Len(computers) : computers[i].name = LocalName
                  THEN @ \cup {<<"layout", "send">>} ELSE @]
    /\ UNCHANGED <<prim_vars, now, sec_vars, disc, con, layout>>

\* draw_layout (WM_PAINT of the layout window): draws under layout_mutex; the
\* instructions line of a running server reads the session under
\* active_client_mutex
draw_layout ==
    /\ ui_pc = "idle"
    /\ server_running => mtx.send_owner = "none"
    /\ mtx' = [mtx EXCEPT !.nested =
                  IF server_running THEN @ \cup {<<"layout", "send">>} ELSE @]
    /\ UNCHANGED <<prim_vars, now, sec_vars, disc, con, layout>>

\* WM_DESTROY: clear the three flags, then input_capture.stop() up to its
\* hook_thread_.join()
UiDestroy ==
    /\ ui_pc = "idle"
    /\ ui_pc' = "destroy_stop"
    /\ server_running' = FALSE
    /\ disc' = [disc EXCEPT !.running = FALSE]
    /\ running_' = FALSE
    /\ captured_' = FALSE
    /\ UNCHANGED <<last_x_, last_y_, last_activity_, hooks, hook_vars, cursor,
                   now, active_client, active_on_remote, computers, srv_pc,
                   client_ip, link, wire, episode, sec_vars, mtx, con, layout>>

\* WM_DESTROY: the join of the hook thread has returned; close server_socket,
\* client_socket, active_client and discovery_socket
UiDestroyHookJoined ==
    /\ ui_pc = "destroy_stop"
    /\ hpc = "idle"
    /\ mtx.send_owner = "none"
    /\ ui_pc' = "destroy_join"
    /\ hooks' = FALSE
    /\ active_client' = FALSE
    /\ wire' = <<>>
    /\ UNCHANGED <<running_, captured_, last_x_, last_y_, last_activity_,
                   hook_vars, cursor, now, server_running, active_on_remote,
                   computers, srv_pc, client_ip, link, episode, sec_vars,
                   sys_vars>>

\* WM_DESTROY: the joins of the discovery thread and of the server thread have
\* returned; PostQuitMessage
UiDestroyJoined ==
    /\ ui_pc = "destroy_join"
    /\ disc.pc \in {"none", "off"}
    /\ srv_pc = "off"
    /\ ui_pc' = "destroyed"
    /\ UNCHANGED <<capture_vars, hook_vars, cursor, now, server_running,
                   active_client, active_on_remote, computers, srv_pc,
                   client_ip, link, wire, episode, sec_vars, sys_vars>>

(***************************************************************************)
(* The GUI secondary: client_thread_func.                                  *)
(***************************************************************************)
\* int cursor_x = 0, cursor_y = 0; bool active = false; entry_edge = LEFT;
\* returned: the secondary left ACTIVE because its cursor reached entry_edge
NoSec == [active |-> FALSE, entry_edge |-> "LEFT", cursor_x |-> 0,
          cursor_y |-> 0, returned |-> FALSE]

NoRx == [frame |-> [type |-> "NONE"], payload_ok |-> TRUE, before |-> NoSec,
         calls |-> <<>>, info |-> [type |-> "NONE"]]

\* the client thread: where it is (off, connect, header, payload, done),
\* g_app.client_connected, the header it read last, what its last read did,
\* whether a timed-out header read has discarded bytes, when it last read a
\* header and when it ended; ui is the UI thread of the secondary
NoCli == [pc |-> "off", connected |-> FALSE,
          header |-> [version |-> 0, type |-> "NONE", payload_size |-> 0],
          outcome |-> "none", dropped |-> FALSE, last_recv |-> 0,
          closed_at |-> 0, ui |-> "idle", switched |-> FALSE,
          closed_active |-> FALSE]

\* the peer: the event it encoded last, the bytes it has written that have not
\* arrived yet, and whether its end is open
NoTx == [event |-> [type |-> "NONE"], pending |-> <<>>, open |-> FALSE]

\* the calls made on g_app.input_simulator
move_mouse(x, y) == [op |-> "move_mouse", x |-> x, y |-> y]
mouse_button(button, pressed) ==
    [op |-> "mouse_button", button |-> button, pressed |-> pressed]
mouse_scroll(dx, dy) == [op |-> "mouse_scroll", dx |-> dx, dy |-> dy]
key_event(vkCode, pressed) ==
    [op |-> "key_event", vkCode |-> vkCode, pressed |-> pressed]

\* (std::max)(0, (std::min)(v, size - 1))
Clamp(v, size) == Max(0, Min(v, size - 1))

\* the MOUSE_MOVE case deactivating at the entry edge without re-centring
ClientMouseMoveWithoutCenter(s, e, payload_ok) ==
    IF ~s.active \/ ~payload_ok THEN [sec |-> s, calls |-> <<>>]
    ELSE LET cx == Clamp(s.cursor_x + e.dx, local_info.screen_width)
             cy == Clamp(s.cursor_y + e.dy, local_info.screen_height)
             should_return ==
                 \/ s.entry_edge = "LEFT" /\ cx <= 0
                 \/ s.entry_edge = "RIGHT" /\ cx >= local_info.screen_width - 1
                 \/ s.entry_edge = "TOP" /\ cy <= 0
                 \/ s.entry_edge = "BOTTOM" /\ cy >= local_info.screen_height - 1
         IN  [sec |-> [s EXCEPT !.active = ~should_return,
                                !.returned = should_return,
                                !.cursor_x = cx, !.cursor_y = cy],
              calls |-> <<move_mouse(cx, cy)>>]

\* case EventType::MOUSE_MOVE
ClientMouseMove(s, e, payload_ok) ==
    IF ~s.active \/ ~payload_ok THEN [sec |-> s, calls |-> <<>>]
    ELSE LET cx == Clamp(s.cursor_x + e.dx, local_info.screen_width)
             cy == Clamp(s.cursor_y + e.dy, local_info.screen_height)
             should_return ==
                 \/ s.entry_edge = "LEFT" /\ cx <= 0
                 \/ s.entry_edge = "RIGHT" /\ cx >= local_info.screen_width - 1
                 \/ s.entry_edge = "TOP" /\ cy <= 0
                 \/ s.entry_edge = "BOTTOM" /\ cy >= local_info.screen_height - 1
         IN  IF should_return
             THEN [sec |-> [s EXCEPT !.active = FALSE, !.returned = TRUE,
                                     !.cursor_x = local_info.screen_width \div 2,
                                     !.cursor_y = local_info.screen_height \div 2],
                   calls |-> <<move_mouse(cx, cy),
                               move_mouse(local_info.screen_width \div 2,
                                          local_info.screen_height \div 2)>>]
             ELSE [sec |-> [s EXCEPT !.cursor_x = cx, !.cursor_y = cy],
                   calls |-> <<move_mouse(cx, cy)>>]

\* case EventType::MOUSE_BUTTON
ClientMouseButton(s, e, payload_ok) ==
    IF ~s.active \/ ~payload_ok THEN [sec |-> s, calls |-> <<>>]
    ELSE [sec |-> s, calls |-> <<mouse_button(e.button, e.pressed)>>]

\* case EventType::MOUSE_SCROLL
ClientMouseScroll(s, e, payload_ok) ==
    IF ~s.active \/ ~payload_ok THEN [sec |-> s, calls |-> <<>>]
    ELSE [sec |-> s, calls |-> <<mouse_scroll(e.dx, e.dy)>>]

\* the key case without its "if (!active) break"
ClientKeyEventWhileIdle(s, e, payload_ok) ==
    IF ~payload_ok THEN [sec |-> s, calls |-> <<>>]
    ELSE [sec |-> s, calls |-> <<key_event(e.vkCode, e.type = "KEY_PRESS")>>]

\* case EventType::KEY_PRESS / KEY_RELEASE
ClientKeyEvent(s, e, payload_ok) ==
    IF ~s.active \/ ~payload_ok THEN [sec |-> s, calls |-> <<>>]
    ELSE [sec |-> s, calls |-> <<key_event(e.vkCode, e.type = "KEY_PRESS")>>]

\* the SWITCH_SCREEN case without its "Clamp to screen bounds"
ClientSwitchScreenUnclamped(s, e, payload_ok) ==
    IF ~payload_ok THEN [sec |-> s, calls |-> <<>>]
    ELSE LET x == IF e.edge = "RIGHT" THEN local_info.screen_width - 1
                  ELSE IF e.edge \in {"TOP", "BOTTOM"} THEN e.position
                  ELSE 0
             y == IF e.edge = "TOP" THEN 0
                  ELSE IF e.edge = "BOTTOM" THEN local_info.screen_height - 1
                  ELSE e.position
         IN  [sec |-> [active |-> TRUE, entry_edge |-> e.edge,
                       cursor_x |-> x, cursor_y |-> y, returned |-> FALSE],
              calls |-> <<move_mouse(x, y)>>]

\* case EventType::SWITCH_SCREEN
ClientSwitchScreen(s, e, payload_ok) ==
    IF ~payload_ok THEN [sec |-> s, calls |-> <<>>]
    ELSE LET x == IF e.edge = "RIGHT" THEN local_info.screen_width - 1
                  ELSE IF e.edge \in {"TOP", "BOTTOM"} THEN e.position
                  ELSE 0
             y == IF e.edge = "TOP" THEN 0
                  ELSE IF e.edge = "BOTTOM" THEN local_info.screen_height - 1
                  ELSE e.position
             cx == Clamp(x, local_info.screen_width)
             cy == Clamp(y, local_info.screen_height)
         IN  [sec |-> [active |-> TRUE, entry_edge |-> e.edge,
                       cursor_x |-> cx, cursor_y |-> cy, returned |-> FALSE],
              calls |-> <<move_mouse(cx, cy)>>]

\* switch (header.type)
ClientDispatch(s, frame, payload_ok) ==
    IF frame.type = "MOUSE_MOVE" THEN ClientMouseMove(s, frame, payload_ok)
    ELSE IF frame.type = "MOUSE_BUTTON" THEN ClientMouseButton(s, frame, payload_ok)
    ELSE IF frame.type = "MOUSE_SCROLL" THEN ClientMouseScroll(s, frame, payload_ok)
    ELSE IF frame.type \in {"KEY_PRESS", "KEY_RELEASE"}
         THEN ClientKeyEvent(s, frame, payload_ok)
    ELSE IF frame.type = "SWITCH_SCREEN" THEN ClientSwitchScreen(s, frame, payload_ok)
    ELSE [sec |-> s, calls |-> <<>>]

\* one turn of the receive loop on a frame read from the socket
ClientProcess(frame, payload_ok) ==
    LET r == ClientDispatch(sec, frame, payload_ok)
    IN  /\ sec' = r.sec
        /\ rx' = [frame |-> frame, payload_ok |-> payload_ok, before |-> sec,
                  calls |-> r.calls,
                  info |-> IF frame.type = "SCREEN_INFO" /\ payload_ok
                           THEN frame ELSE rx.info]

\* the receive loop takes the next frame the primary wrote; serialize_packet
\* always writes the whole payload
ClientRecvWire ==
    /\ cli.pc = "header" /\ cli.connected
    /\ wire # <<>>
    /\ wire' = Tail(wire)
    /\ ClientProcess(Head(wire), TRUE)
    /\ UNCHANGED <<capture_vars, hook_vars, cursor, now, app_vars, link, episode,
                   stream, cli, tx, sys_vars>>

\* the receive loop takes a frame from whatever is at the other end of its
\* connection
ClientRecvAny(frame, payload_ok) ==
    /\ cli.pc = "header" /\ cli.connected
    /\ ClientProcess(frame, payload_ok)
    /\ UNCHANGED <<prim_vars, sys_vars, now, stream, cli, tx>>

(***************************************************************************)
(* The GUI secondary's session: the client thread over the byte stream,     *)
(* the Connect and Disconnect buttons, and the peer at the other end.       *)
(***************************************************************************)
\* ID_BTN_CONNECT: start the client thread
UiConnect ==
    /\ cli.pc = "off" /\ cli.ui = "idle"
    /\ cli' = [cli EXCEPT !.pc = "connect"]
    /\ UNCHANGED <<prim_vars, sys_vars, now, sec, rx, stream, tx>>

\* client_thread_func with cursor_x, cursor_y, active and entry_edge kept from
\* the thread before instead of being its own locals
ClientConnectKeepingFocus(ok) ==
    /\ cli.pc = "connect"
    /\ IF ok
       THEN /\ cli' = [cli EXCEPT !.pc = "header", !.connected = TRUE,
                                  !.outcome = "none", !.dropped = FALSE,
                                  !.switched = FALSE, !.last_recv = now]
            /\ stream' = <<>>
            /\ tx' = [NoTx EXCEPT !.open = TRUE]
            /\ UNCHANGED sec
       ELSE /\ cli' = [cli EXCEPT !.pc = "done", !.connected = FALSE,
                                  !.outcome = "closed", !.closed_at = now]
            /\ UNCHANGED <<sec, stream, tx>>
    /\ UNCHANGED <<prim_vars, sys_vars, now, rx>>

\* client_thread_func up to its loop: connect() returns (ok) or throws
\* NetworkError, which ends the thread ("Disconnected").  (History: switched,
\* that a SWITCH_SCREEN has been processed on this session; closed_active,
\* that the thread before ended while active.)
ClientConnect(ok) ==
    /\ cli.pc = "connect"
    /\ IF ok
       THEN /\ cli' = [cli EXCEPT !.pc = "header", !.connected = TRUE,
                                  !.outcome = "none", !.dropped = FALSE,
                                  !.switched = FALSE, !.last_recv = now]
            /\ sec' = NoSec
            /\ stream' = <<>>
            /\ tx' = [NoTx EXCEPT !.open = TRUE]
       ELSE /\ cli' = [cli EXCEPT !.pc = "done", !.connected = FALSE,
                                  !.outcome = "closed", !.closed_at = now]
            /\ UNCHANGED <<sec, stream, tx>>
    /\ UNCHANGED <<prim_vars, sys_vars, now, rx>>

\* the loop condition and recv_exact(&header, sizeof(header), 100).  With 9
\* bytes there the header is read; a frame without payload is dispatched at
\* once.  Otherwise recv_exact returns false after 100 ms, or because the peer
\* has closed, and the loop continues with a new header: the bytes it had
\* read are gone.  (payload_size is 16 bits wide, never above 65535.)
ClientRecvHeader ==
    /\ cli.pc = "header"
    /\ IF ~cli.connected
       THEN /\ cli' = [cli EXCEPT !.pc = "done", !.outcome = "closed",
                                  !.closed_at = now,
                                  !.closed_active = sec.active]
            /\ UNCHANGED <<sec, rx, stream>>
       ELSE IF Len(stream) >= 9
       THEN LET h == ParseHeader(SubSeq(stream, 1, 9))
                d == ParsePayload(h.type, <<>>)
            IN  /\ stream' = SubSeq(stream, 10, Len(stream))
                /\ IF h.payload_size > 0
                   THEN /\ cli' = [cli EXCEPT !.pc = "payload", !.header = h,
                                              !.outcome = "header",
                                              !.last_recv = now]
                        /\ UNCHANGED <<sec, rx>>
                   ELSE /\ cli' = [cli EXCEPT !.header = h, !.outcome = "frame",
                                              !.last_recv = now]
                        /\ ClientProcess(d.frame, d.payload_ok)
       ELSE /\ stream' = <<>>
            /\ cli' = [cli EXCEPT !.outcome = "timeout",
                                  !.dropped = cli.dropped \/ stream # <<>>]
            /\ UNCHANGED <<sec, rx>>
    /\ UNCHANGED <<prim_vars, sys_vars, now, tx>>

\* recv_exact(payload.data(), header.payload_size), no timeout, and the
\* switch on header.type; a failed read leaves the loop and ends the thread
ClientRecvPayload ==
    /\ cli.pc = "payload"
    /\ LET n == cli.header.payload_size
       IN  IF Len(stream) >= n
           THEN LET d == ParsePayload(cli.header.type, SubSeq(stream, 1, n))
                IN  /\ stream' = SubSeq(stream, n + 1, Len(stream))
                    /\ cli' = [cli EXCEPT
                                 !.pc = "header", !.outcome = "frame",
                                 !.switched = cli.switched
                                     \/ (d.frame.type = "SWITCH_SCREEN"
                                         /\ d.payload_ok)]
                    /\ ClientProcess(d.frame, d.payload_ok)
           ELSE /\ ~tx.open /\ tx.pending = <<>>
                /\ stream' = <<>>
                /\ cli' = [cli EXCEPT !.pc = "done", !.connected = FALSE,
                                      !.outcome = "closed", !.closed_at = now,
                                      !.closed_active = sec.active]
                /\ UNCHANGED <<sec, rx>>
    /\ UNCHANGED <<prim_vars, sys_vars, now, tx>>

\* ID_BTN_DISCONNECT: client_connected = false, then block in join
UiDisconnect ==
    /\ cli.pc # "off" /\ cli.ui = "idle"
    /\ cli' = [cli EXCEPT !.connected = FALSE, !.ui = "joining"]
    /\ UNCHANGED <<prim_vars, sys_vars, now, sec, rx, stream, tx>>

\* ID_BTN_DISCONNECT after the join: close the socket, enable Connect
UiDisconnectJoined ==
    /\ cli.pc = "done" /\ cli.ui = "joining"
    /\ cli' = [cli EXCEPT !.pc = "off", !.ui = "idle"]
    /\ stream' = <<>>
    /\ tx' = NoTx
    /\ UNCHANGED <<prim_vars, sys_vars, now, sec, rx>>

\* what a peer can write: the frame of e with the given header version and
\* with delta bytes more (zeros) or fewer payload bytes, declared as such
RawFrame(e, version, delta) ==
    LET p == PayloadBytes(e)
        n == Len(p) + delta
    IN  LE(version, 2) \o <<Code(EventTypes, e.type)>> \o LE(0, 4) \o LE(n, 2)
        \o [i \in 1 .. n |-> IF i <= Len(p) THEN p[i] ELSE 0]

\* the peer writes a frame, one at a time
PeerSend(e, bytes) ==
    /\ cli.pc \in {"header", "payload"} /\ tx.open
    /\ tx.pending = <<>> /\ stream = <<>>
    /\ tx' = [tx EXCEPT !.event = e, !.pending = bytes]
    /\ UNCHANGED <<prim_vars, sys_vars, now, sec, rx, stream, cli>>

\* the next k bytes the peer wrote arrive at the secondary's socket
NetDeliver(k) ==
    /\ k \in 1 .. Len(tx.pending)
    /\ stream' = stream \o SubSeq(tx.pending, 1, k)
    /\ tx' = [tx EXCEPT !.pending = SubSeq(tx.pending, k + 1, Len(tx.pending))]
    /\ UNCHANGED <<prim_vars, sys_vars, now, sec, rx, cli>>

\* the peer closes its end
PeerClose ==
    /\ tx.open
    /\ tx' = [tx EXCEPT !.open = FALSE]
    /\ UNCHANGED <<prim_vars, sys_vars, now, sec, rx, stream, cli>>

(***************************************************************************)
(* The GUI primary: hook thread, server thread and UI thread.               *)
(***************************************************************************)
Points == Xs \X Ys
\* the inputs the hook thread is driven with: the centre and the middle of the
\* left and right edges; key events as <<vkCode, ctrl_down, alt_down, pressed>>
SamplePoints == {<<CenterX, CenterY>>, <<ScreenW - 1, CenterY>>, <<0, CenterY>>}
SampleKeyEvents == {<<"VK_F8", FALSE, FALSE, TRUE>>,
                    <<"VK_A", FALSE, FALSE, TRUE>>,
                    <<"VK_CONTROL", FALSE, FALSE, TRUE>>,
                    <<"VK_SCROLL", FALSE, FALSE, TRUE>>,
                    <<"VK_ESCAPE", TRUE, TRUE, TRUE>>}

\* the state after construction (AppState, InputCapture and the client
\* thread's locals), with peer B discovered and arranged flush right of the
\* local screen
InitWith(l) ==
    /\ running_ = FALSE /\ captured_ = FALSE
    /\ last_x_ = 0 /\ last_y_ = 0 /\ last_activity_ = 0
    /\ hooks = FALSE /\ hpc = "idle" /\ cb = NoCb /\ ev = NoEv
    /\ cursor = <<CenterX, CenterY>>
    /\ now = 0
    /\ server_running = FALSE /\ active_client = FALSE
    /\ active_on_remote = FALSE
    /\ computers = <<local_info,
                     Computer(PeerName, PeerIp, ScreenW, ScreenH, FALSE,
                              ScreenW, 0)>>
    /\ srv_pc = "off" /\ client_ip = "" /\ ui_pc = "idle"
    /\ link = l /\ wire = <<>>
    /\ episode = NoEpisode
    /\ sec = NoSec /\ rx = NoRx
    /\ stream = <<>> /\ cli = NoCli /\ tx = NoTx
    /\ disc = NoDisc /\ mtx = NoMtx /\ con = NoCon /\ layout = NoLayout

Init == InitWith("null")

HookThread ==
    \/ \E p \in SamplePoints : HookMouseMove(p[1], p[2])
    \/ MoveLayout
    \/ MoveDecide
    \/ MoveCapture
    \/ MoveSwitch
    \/ MoveForward
    \/ HookMouseButton("LEFT", TRUE)
    \/ HookMouseScroll(0, 1)
    \/ MouseHookReturn
    \/ \E k \in SampleKeyEvents : HookEmergencyKey(k[1], k[2], k[3], FALSE, k[4])
    \/ \E k \in SampleKeyEvents : HookKey(k[1], k[2], k[3], FALSE, k[4])
    \/ KeyF8Toggle
    \/ KeyF8Capture
    \/ KeyF8Send
    \/ KeyHookReturn

ServerThread ==
    \/ SrvInit
    \/ SrvLoop
    \/ SrvSelectTimeout
    \/ \E ip \in {PeerIp, OtherIp} : SrvAccept(ip)
    \/ SrvKeepExit
    \/ SrvMarkDisconnected
    \/ SrvClose
    \/ SrvResetFocus
    \/ SrvResetCapture
    \/ SrvStop
    \/ SrvJoin

UiThread ==
    \/ UiStartServer
    \/ UiStopServer
    \/ UiStopJoined
    \/ UiTimer
    \/ draw_layout

Next ==
    \/ HookThread
    \/ ServerThread
    \/ UiThread

Spec == Init /\ [][Next]_vars

\* the same with the threads of the program running on: the server thread
\* takes its next step, and a hook callback that has started runs to its return
SpecFair ==
    /\ Init
    /\ [][Next]_vars
    /\ WF_vars(ServerThread)
    /\ WF_vars(MoveLayout \/ MoveDecide \/ MoveCapture \/ MoveSwitch
                \/ MoveForward \/ MouseHookReturn \/ KeyF8Toggle
                \/ KeyF8Capture \/ KeyF8Send \/ KeyHookReturn)

(***************************************************************************)
(* Time: the hook thread's message loop and its safety timeout.             *)
(***************************************************************************)
\* GetTickCount advances by one unit; a hook callback takes less than that
Tick ==
    /\ now < MaxTime
    /\ hpc = "idle"
    /\ now' = now + 1
    /\ UNCHANGED <<capture_vars, hook_vars, cursor, app_vars, link, wire,
                   episode, sec_vars, sys_vars>>

\* hook_thread_func: GetMessage returns a message posted to the hook thread
\* (other than WM_QUIT); after dispatching it the loop runs the safety check
HookLoopMessage ==
    /\ hpc = "idle" /\ hooks /\ running_
    /\ captured_' = IF captured_ /\ now - last_activity_ > SafetyTimeout
                    THEN FALSE ELSE captured_
    /\ UNCHANGED <<running_, last_x_, last_y_, last_activity_, hooks,
                   hook_vars, cursor, now, app_vars, link, wire, episode,
                   sec_vars, sys_vars>>

\* the server is started and a client connects
Startup ==
    \/ UiStartServer
    \/ SrvInit
    \/ SrvLoop
    \/ SrvSelectTimeout
    \/ \E ip \in {PeerIp, OtherIp} : SrvAccept(ip)

NextTimer ==
    \/ Startup
    \/ HookThread
    \/ Tick
    \/ HookLoopMessage

SpecTimer == Init /\ [][NextTimer]_vars

(***************************************************************************)
(* The keyboard hook over every key and modifier combination.               *)
(***************************************************************************)
KeyboardHook ==
    \/ \E vk \in AllKeys, ctrl, alt, shift, pressed \in BOOLEAN :
          HookEmergencyKey(vk, ctrl, alt, shift, pressed)
    \/ \E vk \in AllKeys, ctrl, alt, shift, pressed \in BOOLEAN :
          HookKey(vk, ctrl, alt, shift, pressed)
    \/ KeyF8Toggle
    \/ KeyF8Capture
    \/ KeyF8Send
    \/ KeyHookReturn

NextKeys ==
    \/ Startup
    \/ KeyboardHook

SpecKeys == Init /\ [][NextKeys]_vars

(***************************************************************************)
(* Edge switching over every topology and every move.                       *)
(***************************************************************************)
\* where the layout editor (layout_wnd_proc, WM_MOUSEMOVE while dragging) has
\* left peer B, per axis: apart, flush, overlapping by all but one pixel,
\* aligned, and the mirror images
LayoutXs == {-ScreenW - 1, -ScreenW, 1 - ScreenW, 0, ScreenW - 1, ScreenW,
             ScreenW + 1}
LayoutYs == {-ScreenH - 1, -ScreenH, 1 - ScreenH, 0, ScreenH - 1, ScreenH,
             ScreenH + 1}

InitEdge ==
    /\ \E x \in LayoutXs, y \in LayoutYs :
          computers = <<local_info,
                        Computer(PeerName, PeerIp, ScreenW, ScreenH, FALSE, x, y)>>
    /\ running_ = FALSE /\ captured_ = FALSE
    /\ last_x_ = 0 /\ last_y_ = 0 /\ last_activity_ = 0
    /\ hooks = FALSE /\ hpc = "idle" /\ cb = NoCb /\ ev = NoEv
    /\ cursor = <<CenterX, CenterY>>
    /\ now = 0
    /\ server_running = FALSE /\ active_client = FALSE
    /\ active_on_remote = FALSE
    /\ srv_pc = "off" /\ client_ip = "" /\ ui_pc = "idle"
    /\ link = "null" /\ wire = <<>>
    /\ episode = NoEpisode
    /\ sec = NoSec /\ rx = NoRx
    /\ stream = <<>> /\ cli = NoCli /\ tx = NoTx
    /\ disc = NoDisc /\ mtx = NoMtx /\ con = NoCon /\ layout = NoLayout

MouseMoveHook ==
    \/ \E p \in Points : HookMouseMove(p[1], p[2])
    \/ MoveLayout
    \/ MoveDecide
    \/ MoveCapture
    \/ MoveSwitch
    \/ MoveForward
    \/ MouseHookReturn

NextEdge ==
    \/ Startup
    \/ MouseMoveHook

SpecEdge == InitEdge /\ [][NextEdge]_vars

(***************************************************************************)
(* The secondary on its own, fed any sequence of frames.                    *)
(***************************************************************************)
Edges == {"LEFT", "RIGHT", "TOP", "BOTTOM"}
ClientFrames ==
    {MouseMoveEvent(0, 0, dx, dy) : dx \in {-1, 0, 1}, dy \in {-1, 0, 1}}
    \cup {MouseButtonEvent("LEFT", pressed) : pressed \in BOOLEAN}
    \cup {MouseScrollEvent(0, d) : d \in {-1, 1}}
    \cup {KeyEvent("VK_A", pressed) : pressed \in BOOLEAN}
    \cup {SwitchScreenEvent(e, pos) : e \in Edges \cup {"NONE"},
                                      pos \in {0, 1, ScreenH}}
    \cup {ScreenInfo(ScreenW, ScreenH), ScreenInfo(2 * ScreenW, 2 * ScreenH)}

\* the user presses Connect and the connection is made
ClientStartup ==
    \/ UiConnect
    \/ ClientConnect(TRUE)

NextClient ==
    \/ ClientStartup
    \/ \E frame \in ClientFrames, payload_ok \in BOOLEAN :
          ClientRecvAny(frame, payload_ok)

SpecClient == Init /\ [][NextClient]_vars

(***************************************************************************)
(* The wire codec: one frame of every kind, with field values at the ends   *)
(* and in the middle of their range, written by serialize_packet or         *)
(* serialize_keepalive and read by the client thread.                       *)
(***************************************************************************)
CodecEvents ==
    LET V == {-2147483647 - 1, -1, 0, 1, 258, 2147483647}
    IN  {MouseMoveEvent(x, y, dx, dy) : x \in V, y \in V, dx \in V, dy \in V}
        \cup {MouseButtonEvent(b, pressed) :
                 b \in {"LEFT", "MIDDLE", "RIGHT", "BUTTON4", "BUTTON5"},
                 pressed \in BOOLEAN}
        \cup {MouseScrollEvent(dx, dy) : dx \in V, dy \in V}
        \cup {[KeyEvent(vk, pressed) EXCEPT !.scanCode = sc, !.flags = fl] :
                 vk \in V, sc \in V, fl \in V, pressed \in BOOLEAN}
        \cup {[ScreenInfo(w, h) EXCEPT !.x = x, !.y = y] :
                 w \in V, h \in V, x \in V, y \in V}
        \cup {SwitchScreenEvent(e, pos) : e \in Edges \cup {"NONE"}, pos \in V}
        \cup {[type |-> "KEEPALIVE"]}

\* a connected secondary whose peer has just written one frame
InitCodec ==
    \E e \in CodecEvents, timestamp \in {0, -1} :
        /\ running_ = FALSE /\ captured_ = FALSE
        /\ last_x_ = 0 /\ last_y_ = 0 /\ last_activity_ = 0
        /\ hooks = FALSE /\ hpc = "idle" /\ cb = NoCb /\ ev = NoEv
        /\ cursor = <<CenterX, CenterY>>
        /\ now = 0
        /\ server_running = FALSE /\ active_client = FALSE
        /\ active_on_remote = FALSE
        /\ computers = <<local_info,
                         Computer(PeerName, PeerIp, ScreenW, ScreenH, FALSE,
                                  ScreenW, 0)>>
        /\ srv_pc = "off" /\ client_ip = "" /\ ui_pc = "idle"
        /\ link = "null" /\ wire = <<>>
        /\ episode = NoEpisode
        /\ sec = NoSec /\ rx = NoRx
        /\ stream = <<>>
        /\ cli = [NoCli EXCEPT !.pc = "header", !.connected = TRUE]
        /\ tx = [event |-> e, open |-> TRUE,
                 pending |-> IF e.type = "KEEPALIVE"
                             THEN serialize_keepalive(timestamp)
                             ELSE serialize_packet(e, timestamp)]
        /\ disc = NoDisc /\ mtx = NoMtx /\ con = NoCon /\ layout = NoLayout

NextCodec ==
    \/ NetDeliver(Len(tx.pending))
    \/ ClientRecvHeader
    \/ ClientRecvPayload

SpecCodec == InitCodec /\ [][NextCodec]_vars

(***************************************************************************)
(* The secondary's session over the byte stream: frames well formed and     *)
(* not, delivered whole or in part, and the peer closing.                   *)
(***************************************************************************)
\* the first bytes of a frame that arrive ahead of the rest
PartialLen == 4

\* a frame as <<event, bytes>>: header version 1 or 2, and a payload of the
\* fixed size of its type, one byte shorter (if it has any) or one byte longer
SessionFrames ==
    {<<e, RawFrame(e, version, delta)>> :
        e \in {SwitchScreenEvent("LEFT", 1), MouseButtonEvent("LEFT", TRUE)},
        version \in {PROTOCOL_VERSION, PROTOCOL_VERSION + 1},
        delta \in {-1, 0, 1}}
    \cup {<<[type |-> "KEEPALIVE"],
            RawFrame([type |-> "KEEPALIVE"], version, delta)>> :
             version \in {PROTOCOL_VERSION, PROTOCOL_VERSION + 1},
             delta \in {0, 1}}

NextStream ==
    \/ ClientStartup
    \/ ClientRecvHeader
    \/ ClientRecvPayload
    \/ \E f \in SessionFrames : PeerSend(f[1], f[2])
    \/ \E k \in {PartialLen, Len(tx.pending)} : NetDeliver(k)
    \/ PeerClose

SpecStream == Init /\ [][NextStream]_vars

(***************************************************************************)
(* The secondary's session over time: connecting, well-formed frames        *)
(* arriving whole, either side ending the session, and the clock.           *)
(***************************************************************************)
\* the idle timeout of the documented client (30 s), in time units
IdleTimeout == 3

NextSession ==
    \/ UiConnect
    \/ \E ok \in BOOLEAN : ClientConnect(ok)
    \/ ClientRecvHeader
    \/ ClientRecvPayload
    \/ UiDisconnect
    \/ UiDisconnectJoined
    \/ \E e \in {SwitchScreenEvent("LEFT", 1), MouseButtonEvent("LEFT", TRUE),
                 [type |-> "KEEPALIVE"]} :
          PeerSend(e, RawFrame(e, PROTOCOL_VERSION, 0))
    \/ NetDeliver(Len(tx.pending))
    \/ PeerClose
    \/ Tick

SpecSession == Init /\ [][NextSession]_vars

(***************************************************************************)
(* The discovery thread (discovery_thread_func) and the datagrams it gets.  *)
(* It reads the clock when it wakes up; what it does between two sleeps     *)
(* takes no time.                                                           *)
(***************************************************************************)
\* WM_CREATE: discovery_running = true, start the thread (socket bound); the
\* window is created before any command reaches it
DiscStart ==
    /\ disc.pc = "none"
    /\ ui_pc = "idle" /\ srv_pc = "off" /\ cli.pc = "off"
    /\ disc' = [disc EXCEPT !.pc = "recv", !.running = TRUE]
    /\ UNCHANGED <<prim_vars, now, sec_vars, mtx, con, layout>>

\* an announce datagram of a computer arrives on the socket while the thread
\* sleeps, off ms after it fell asleep
DiscPacket(name, ip, w, off) ==
    /\ disc.pc = "sleep" /\ disc.inbox = <<>>
    /\ off \in 0 .. DISCOVERY_INTERVAL_MS - 1
    /\ disc' = [disc EXCEPT
                  !.inbox = <<[name |-> name, ip |-> ip, screen_width |-> w,
                               screen_height |-> ScreenH]>>,
                  !.heard = [n \in DOMAIN disc.heard \cup {name} |->
                               IF n = name THEN disc.now + off
                               ELSE disc.heard[n]]]
    /\ UNCHANGED <<prim_vars, now, sec_vars, mtx, con, layout>>

\* the datagram handled as if every sender were new to the layout: a known
\* peer is placed again to the right of the rightmost computer
DiscRecvPlacingAgain ==
    /\ disc.pc = "recv" /\ disc.inbox # <<>>
    /\ LET p == Head(disc.inbox)
           known == {i \in 1 .. Len(computers) : computers[i].name = p.name}
           rights == {computers[i].layout_x + computers[i].screen_width :
                        i \in 1 .. Len(computers)} \cup {0}
           max_x == CHOOSE m \in rights : \A r \in rights : r <= m
       IN  computers' =
             IF p.name = LocalName THEN computers
             ELSE IF known # {}
             THEN LET i == CHOOSE k \in known : \A j \in known : k <= j
                  IN  [computers EXCEPT
                         ![i] = [@ EXCEPT !.ip = p.ip,
                                          !.screen_width = p.screen_width,
                                          !.screen_height = p.screen_height,
                                          !.last_seen = disc.now,
                                          !.layout_x = max_x + 50,
                                          !.layout_y = 0]]
             ELSE Append(computers,
                         [Computer(p.name, p.ip, p.screen_width,
                                   p.screen_height, FALSE, max_x + 50, 0)
                            EXCEPT !.last_seen = disc.now])
    /\ disc' = [disc EXCEPT !.inbox = Tail(disc.inbox)]
    /\ UNCHANGED <<capture_vars, hook_vars, cursor, now, server_running,
                   active_client, active_on_remote, srv_pc, client_ip, ui_pc,
                   link, wire, episode, sec_vars, mtx, con, layout>>

\* recvfrom returns a datagram: update the computer of that name, or add it
\* to the right of the existing ones
DiscRecv ==
    /\ disc.pc = "recv" /\ disc.inbox # <<>>
    /\ LET p == Head(disc.inbox)
           known == {i \in 1 .. Len(computers) : computers[i].name = p.name}
           rights == {computers[i].layout_x + computers[i].screen_width :
                        i \in 1 .. Len(computers)} \cup {0}
           max_x == CHOOSE m \in rights : \A r \in rights : r <= m
       IN  computers' =
             IF p.name = LocalName THEN computers
             ELSE IF known # {}
             THEN LET i == CHOOSE k \in known : \A j \in known : k <= j
                  IN  [computers EXCEPT
                         ![i] = [@ EXCEPT !.ip = p.ip,
                                          !.screen_width = p.screen_width,
                                          !.screen_height = p.screen_height,
                                          !.last_seen = disc.now]]
             ELSE Append(computers,
                         [Computer(p.name, p.ip, p.screen_width,
                                   p.screen_height, FALSE, max_x + 50, 0)
                            EXCEPT !.last_seen = disc.now])
    /\ disc' = [disc EXCEPT !.inbox = Tail(disc.inbox)]
    /\ UNCHANGED <<capture_vars, hook_vars, cursor, now, server_running,
                   active_client, active_on_remote, srv_pc, client_ip, ui_pc,
                   link, wire, episode, sec_vars, mtx, con, layout>>

\* recvfrom returns nothing more: remove the stale computers, go to sleep
DiscReap ==
    /\ disc.pc = "recv" /\ disc.inbox = <<>>
    /\ LET stale(c) == /\ c.name # "" /\ c.name # LocalName
                       /\ disc.now - c.last_seen > StaleAfter
       IN  computers' = SelectSeq(computers, LAMBDA c : ~stale(c))
    /\ disc' = [disc EXCEPT !.pc = "sleep"]
    /\ UNCHANGED <<capture_vars, hook_vars, cursor, now, server_running,
                   active_client, active_on_remote, srv_pc, client_ip, ui_pc,
                   link, wire, episode, sec_vars, mtx, con, layout>>

\* Sleep(DISCOVERY_INTERVAL_MS) returns; while (g_app.discovery_running)
DiscSleep ==
    /\ disc.pc = "sleep"
    /\ disc.running => disc.now < MaxDiscTime
    /\ disc' = [disc EXCEPT !.now = disc.now + DISCOVERY_INTERVAL_MS,
                            !.pc = IF disc.running THEN "recv" ELSE "off"]
    /\ UNCHANGED <<prim_vars, now, sec_vars, mtx, con, layout>>

DiscoveryThread ==
    \/ DiscRecv
    \/ DiscReap
    \/ DiscSleep

\* the local computer, the peer already known and a new one announce
\* themselves, early or late in a sleep of the thread
SpecDisc ==
    /\ Init
    /\ [][\/ DiscStart
          \/ DiscoveryThread
          \/ \E name \in {LocalName, PeerName, "C"},
                w \in {ScreenW, 2 * ScreenW},
                off \in {1, DISCOVERY_INTERVAL_MS - 1} :
                DiscPacket(name, PeerIp, w, off)]_vars

(***************************************************************************)
(* Primary and secondary end to end, mouse only (no hotkey).                *)
(***************************************************************************)
MouseHookInternal ==
    \/ MoveLayout
    \/ MoveDecide
    \/ MoveCapture
    \/ MoveSwitch
    \/ MoveForward
    \/ MouseHookReturn

NextE2E ==
    \/ UiStartServer
    \/ SrvInit
    \/ SrvLoop
    \/ SrvAccept(PeerIp)
    \/ \E p \in SamplePoints : HookMouseMove(p[1], p[2])
    \/ MouseHookInternal
    \/ ClientStartup
    \/ ClientRecvWire

\* a started callback runs to its return, and the client thread keeps reading
SpecE2E ==
    /\ InitWith("stream")
    /\ [][NextE2E]_vars
    /\ WF_vars(MouseHookInternal)
    /\ WF_vars(ClientRecvWire)
    /\ WF_vars(ClientStartup)
    /\ WF_vars(UiStartServer \/ SrvInit \/ SrvLoop \/ SrvAccept(PeerIp))


\* The primary from start to WM_DESTROY, with its hook, server and discovery
\* threads, over a connection whose sends block while the peer has not read.
\* The threads of the program run on: the UI thread inside WM_DESTROY, the
\* server thread, the discovery thread, and a started move callback whenever
\* it has a step other than a failed send; a join of the hook thread returns
\* once the thread is outside its callbacks often enough.  Nothing obliges the
\* machine at the other end to read, nor the connection to break.
SpecShutdown ==
    /\ InitWith("stream")
    /\ [][\/ UiStartServer
          \/ ServerThread
          \/ HookMouseMove(ScreenW - 1, CenterY)
          \/ MouseHookInternal
          \/ HookSendBlocked
          \/ DiscStart
          \/ DiscReap
          \/ DiscSleep
          \/ ClientStartup
          \/ ClientRecvWire
          \/ UiDestroy
          \/ UiDestroyHookJoined
          \/ UiDestroyJoined]_vars
    /\ SF_vars(UiDestroyHookJoined)
    /\ WF_vars(UiDestroyJoined)
    /\ WF_vars(ServerThread)
    /\ SF_vars(SrvJoin)
    /\ WF_vars(DiscoveryThread)
    /\ WF_vars((MouseHookInternal \/ HookSendBlocked) /\ ev'.failed = ev.failed)

(***************************************************************************)
(* The console primary (Server, input_simulator.hpp) and the console       *)
(* secondary it serves, with a clock in seconds.                           *)
(***************************************************************************)

\* what client_socket_.send does to the connection: the frame joins the
\* frames in flight, and the first frame of the session is remembered
ConWrite(c, type) ==
    [c EXCEPT !.chan = Append(@, type),
              !.first = IF @ = "none" THEN type ELSE @]

\* send_event: nothing without connected_; a failed send clears connected_
\* and, in REMOTE, switches back to the server
send_event(c, type) ==
    IF ~c.connected_ THEN c
    ELSE IF c.sock = "up" THEN ConWrite(c, type)
    ELSE [c EXCEPT !.connected_ = FALSE, !.active_on_client_ = FALSE]

\* Server::run up to listen(): callbacks set, hooks started, then the first
\* accept()
ConsoleRun ==
    /\ con.pc = "off"
    /\ con' = [con EXCEPT !.pc = IF con.g_running THEN "accept" ELSE "stopped"]
    /\ UNCHANGED <<prim_vars, now, sec_vars, disc, mtx, layout>>

\* console_handler: Ctrl+C or the console closing
console_handler ==
    /\ con.pc # "off" /\ con.g_running
    /\ con' = [con EXCEPT !.g_running = FALSE]
    /\ UNCHANGED <<prim_vars, now, sec_vars, disc, mtx, layout>>

\* accept() returns the connection; connected_ = true and
\* last_keepalive_sent_ = now come before send_screen_info()
ConsoleAccept ==
    /\ con.pc = "accept" /\ con.sock = "pending"
    /\ con' = [con EXCEPT !.pc = "connected", !.sock = "up",
                          !.connected_ = TRUE,
                          !.last_keepalive_sent_ = con.now]
    /\ UNCHANGED <<prim_vars, now, sec_vars, disc, mtx, layout>>

\* send_screen_info(): send_event(SCREEN_INFO), then the session loop
send_screen_info ==
    /\ con.pc = "connected"
    /\ Len(con.chan) < MaxChan
    /\ con' = [send_event(con, "SCREEN_INFO") EXCEPT !.pc = "session"]
    /\ UNCHANGED <<prim_vars, now, sec_vars, disc, mtx, layout>>

\* the loop with the GUI primary's body: the session is only watched, no
\* Keepalive is written
ConsoleKeepaliveSilent ==
    /\ con.pc = "session"
    /\ IF con.g_running /\ con.connected_
       THEN /\ con.now - con.last_keepalive_sent_ >= KEEPALIVE_SECONDS
            /\ con' = [con EXCEPT !.last_keepalive_sent_ = con.now]
       ELSE con' = [con EXCEPT !.pc = "cleanup"]
    /\ UNCHANGED <<prim_vars, now, sec_vars, disc, mtx, layout>>

\* one turn of "while (g_running && connected_)" that does something: a
\* Keepalive once KEEPALIVE_SECONDS have passed since last_keepalive_sent_,
\* or leaving the loop
ConsoleKeepalive ==
    /\ con.pc = "session"
    /\ IF con.g_running /\ con.connected_
       THEN /\ con.now - con.last_keepalive_sent_ >= KEEPALIVE_SECONDS
            /\ Len(con.chan) < MaxChan
            /\ con' = IF con.sock = "up"
                      THEN [ConWrite(con, "KEEPALIVE")
                              EXCEPT !.last_keepalive_sent_ = con.now]
                      ELSE [con EXCEPT !.connected_ = FALSE, !.pc = "cleanup"]
       ELSE con' = [con EXCEPT !.pc = "cleanup"]
    /\ UNCHANGED <<prim_vars, now, sec_vars, disc, mtx, layout>>

\* after the loop: switch_to_server() if REMOTE, client_socket_.close(), and
\* back to "while (g_running)"
ConsoleCleanup ==
    /\ con.pc = "cleanup"
    /\ con' = [con EXCEPT !.active_on_client_ = FALSE,
                          !.sock = IF @ = "up" THEN "closed" ELSE @,
                          !.pc = IF con.g_running THEN "accept" ELSE "stopped"]
    /\ UNCHANGED <<prim_vars, now, sec_vars, disc, mtx, layout>>

\* the move callback on the hook thread: at the switch edge in LOCAL it calls
\* switch_to_client (active_on_client_ = true, then send_event(SWITCH_SCREEN)),
\* in REMOTE it forwards the move
ConsoleMove(at_edge) ==
    /\ con.pc \notin {"off", "stopped"}
    /\ con.connected_
    /\ Len(con.chan) < MaxChan
    /\ IF at_edge /\ ~con.active_on_client_
       THEN con' = send_event([con EXCEPT !.active_on_client_ = TRUE],
                              "SWITCH_SCREEN")
       ELSE /\ con.active_on_client_
            /\ con' = send_event(con, "MOUSE_MOVE")
    /\ UNCHANGED <<prim_vars, now, sec_vars, disc, mtx, layout>>

\* the button callback (scroll and key callbacks alike): forwarded only with
\* connected_ and active_on_client_
ConsoleButton ==
    /\ con.pc \notin {"off", "stopped"}
    /\ con.connected_ /\ con.active_on_client_
    /\ Len(con.chan) < MaxChan
    /\ con' = send_event(con, "MOUSE_BUTTON")
    /\ UNCHANGED <<prim_vars, now, sec_vars, disc, mtx, layout>>

\* the network drops the connection: what is in flight is lost and later
\* sends fail
ConsoleLinkLost ==
    /\ con.sock = "up"
    /\ con' = [con EXCEPT !.sock = "lost", !.lost = TRUE, !.chan = <<>>]
    /\ UNCHANGED <<prim_vars, now, sec_vars, disc, mtx, layout>>

\* the console secondary's connect to a primary that waits in accept():
\* connected_ = true, last_data_received_ = now
CliConnect ==
    /\ con.pc = "accept" /\ con.sock # "pending"
    /\ ~con.c_connected
    /\ con' = [con EXCEPT !.sock = "pending", !.chan = <<>>,
                          !.first = "none", !.lost = FALSE,
                          !.c_connected = TRUE, !.c_last = con.now,
                          !.c_timed_out = FALSE]
    /\ UNCHANGED <<prim_vars, now, sec_vars, disc, mtx, layout>>

\* process_events with something to read: a frame updates
\* last_data_received_, a closed connection clears connected_
process_events ==
    /\ con.c_connected
    /\ IF con.chan # <<>>
       THEN con' = [con EXCEPT !.chan = Tail(@), !.c_last = con.now]
       ELSE /\ con.sock = "closed"
            /\ con' = [con EXCEPT !.c_connected = FALSE]
    /\ UNCHANGED <<prim_vars, now, sec_vars, disc, mtx, layout>>

\* the secondary's check after process_events: more than IDLE_SECONDS
\* without data ends the session
CliIdleCheck ==
    /\ con.c_connected
    /\ con.now - con.c_last > IDLE_SECONDS
    /\ con' = [con EXCEPT !.c_connected = FALSE, !.c_timed_out = TRUE,
                          !.sock = IF @ = "up" THEN "closed" ELSE @]
    /\ UNCHANGED <<prim_vars, now, sec_vars, disc, mtx, layout>>

\* one second passes.  Both programs poll every 100 ms, so a second does not
\* pass while the accept thread has a step to take (a connection to accept,
\* ScreenInfo to send, a Keepalive that is due, the loop to leave) nor while
\* the secondary has a frame to read or a timeout to declare
ConsoleTick ==
    /\ con.pc \in {"accept", "session", "stopped"}
    /\ con.now < MaxConTime
    /\ con.sock # "pending"
    /\ con.pc = "session" =>
          /\ con.g_running /\ con.connected_
          /\ con.now - con.last_keepalive_sent_ < KEEPALIVE_SECONDS
    /\ con.c_connected =>
          /\ con.chan = <<>>
          /\ con.sock # "closed"
          /\ con.now - con.c_last <= IDLE_SECONDS
    /\ con' = [con EXCEPT !.now = @ + 1]
    /\ UNCHANGED <<prim_vars, now, sec_vars, disc, mtx, layout>>

\* The console primary with its accept thread and hook callbacks, one console
\* secondary, and a network that may drop the connection.
SpecConsole ==
    /\ Init
    /\ [][\/ ConsoleRun
          \/ console_handler
          \/ ConsoleAccept
          \/ send_screen_info
          \/ ConsoleKeepalive
          \/ ConsoleCleanup
          \/ \E at_edge \in BOOLEAN : ConsoleMove(at_edge)
          \/ ConsoleButton
          \/ ConsoleLinkLost
          \/ CliConnect
          \/ process_events
          \/ CliIdleCheck
          \/ ConsoleTick]_vars

(***************************************************************************)
(* The layout editor (layout_wnd_proc) on the UI thread.                   *)
(***************************************************************************)

\* WM_LBUTTONDOWN: hit is what hit_test_layout returns (an index of
\* computers, from 0, or -1); a hit on a computer other than the local one
\* starts a drag
WM_LBUTTONDOWN(hit) ==
    /\ ui_pc = "idle" /\ ~layout.dragging
    /\ hit \in -1 .. Len(computers) - 1
    /\ layout' = IF hit >= 0 /\ computers[hit + 1].name # LocalName
                 THEN [selected_index |-> hit, dragging |-> TRUE,
                       grabbed |-> computers[hit + 1].name, moved |-> ""]
                 ELSE [layout EXCEPT !.selected_index = hit]
    /\ UNCHANGED <<prim_vars, now, sec_vars, disc, mtx, con>>

\* WM_MOUSEMOVE during a drag: computers[selected_index] gets the position
\* under the mouse.  With selected_index past the end the reference is
\* outside the vector; the two stores then hit memory that is no computer's
\* record (moved = "?")
WM_MOUSEMOVE(x, y) ==
    /\ ui_pc = "idle"
    /\ layout.dragging /\ layout.selected_index >= 0
    /\ LET i == layout.selected_index + 1
       IN  IF i <= Len(computers)
           THEN /\ computers' = [computers EXCEPT ![i].layout_x = x,
                                                  ![i].layout_y = y]
                /\ layout' = [layout EXCEPT !.moved = computers[i].name]
           ELSE /\ layout' = [layout EXCEPT !.moved = "?"]
                /\ UNCHANGED computers
    /\ UNCHANGED <<capture_vars, hook_vars, cursor, now, server_running,
                   active_client, active_on_remote, srv_pc, client_ip, ui_pc,
                   link, wire, episode, sec_vars, disc, mtx, con>>

\* WM_LBUTTONUP: the drag ends
WM_LBUTTONUP ==
    /\ ui_pc = "idle" /\ layout.dragging
    /\ layout' = [layout EXCEPT !.dragging = FALSE]
    /\ UNCHANGED <<prim_vars, now, sec_vars, disc, mtx, con>>

\* The layout editor next to the discovery thread, with peers announcing
\* themselves, going silent and being removed, and a server session that
\* marks a peer connected.
SpecLayout ==
    /\ Init
    /\ [][\/ DiscStart
          \/ DiscoveryThread
          \/ \E name \in {PeerName, "C"}, w \in {ScreenW, 2 * ScreenW} :
                DiscPacket(name, PeerIp, w, DISCOVERY_INTERVAL_MS - 1)
          \/ UiStartServer
          \/ SrvInit
          \/ SrvLoop
          \/ SrvAccept(PeerIp)
          \/ \E hit \in -1 .. 2 : WM_LBUTTONDOWN(hit)
          \/ WM_MOUSEMOVE(DragX, 1)
          \/ WM_LBUTTONUP]_vars

(***************************************************************************)
(* Properties.                                                             *)
(***************************************************************************)

\* C1: on the primary, in every state in which neither thread is between its
\* two stores (the hook thread is outside its callbacks, the server thread is
\* not between "active_on_remote = false" and "capture_input(false)"),
\* suppress (captured_) implies focus REMOTE (active_on_remote).
C1_SuppressImpliesRemote ==
    (hpc = "idle" /\ srv_pc # "reset_capture") => (captured_ => active_on_remote)

\* C2: once the keyboard hook has returned from a Scroll Lock key-down, the
\* primary's focus is LOCAL and suppress is false.
C2_ScrollLockForcesLocal ==
    (hpc = "idle" /\ ev.kind = "key" /\ ev.vk = "VK_SCROLL" /\ ev.pressed
       /\ ev.ret \in {"pass", "block"})
    => (~active_on_remote /\ ~captured_)

\* C3: a key event that is Ctrl, Alt, Delete, Scroll Lock, Win, Ctrl+Shift+Esc,
\* Alt+Tab, Alt+F4 or Ctrl+Alt+Esc leaves the keyboard hook propagated
\* (CallNextHookEx), never blocked, whatever suppress is.
C3_EmergencyKeysPropagate ==
    (/\ ev.kind = "key" /\ ev.ret # "pending"
     /\ \/ ev.vk \in {"VK_CONTROL", "VK_LCONTROL", "VK_RCONTROL"}
        \/ ev.vk \in {"VK_MENU", "VK_LMENU", "VK_RMENU"}
        \/ ev.vk = "VK_DELETE"
        \/ ev.vk = "VK_SCROLL"
        \/ ev.vk \in {"VK_LWIN", "VK_RWIN"}
        \/ ev.vk = "VK_ESCAPE" /\ ev.ctrl /\ ev.shift
        \/ ev.vk = "VK_TAB" /\ ev.alt
        \/ ev.vk = "VK_F4" /\ ev.alt
        \/ ev.vk = "VK_ESCAPE" /\ ev.ctrl /\ ev.alt)
    => ev.ret = "pass"

\* C3 witness: Alt+Tab went through the hook while suppress was true and stayed
\* true, and was propagated.
C3_Witness ==
    /\ ev.kind = "key" /\ ev.vk = "VK_TAB" /\ ev.alt /\ ev.pressed
    /\ ev.ret = "pass" /\ captured_ /\ active_on_remote

\* C4: with focus REMOTE and suppress true, suppress does not outlast 30 000 ms
\* without an event: stated for a REMOTE episode entered with the toggle key,
\* whose key-down has returned and is still the last event delivered to the
\* hooks, so that last_activity_ is the time suppress was set.
C4_SafetyTimerReleases ==
    (hpc = "idle" /\ captured_ /\ active_on_remote
       /\ ev.kind = "key" /\ ev.vk = "VK_F8")
    => now - last_activity_ <= SafetyTimeout

\* C5: when a callback in which a send failed has returned, the primary's
\* focus is LOCAL and suppress is false.
C5_SendFailureRestoresLocal ==
    (hpc = "idle" /\ ev.failed) => (~active_on_remote /\ ~captured_)

\* C6: the primary enters REMOTE, and sends a SwitchScreen, only in a step in
\* which the session is OPEN (active_client is valid).
C6_NoSwitchWithoutSession ==
    [][/\ (~active_on_remote /\ active_on_remote') => active_client
       /\ (episode'.switches > episode.switches) => active_client]_vars

\* C7: for a move callback running in LOCAL with an OPEN session, the decision
\* step enters REMOTE iff the cursor is at its exit edge (the first of LEFT,
\* RIGHT, TOP, BOTTOM it touches) and a connected peer is flush with the local
\* rectangle on that edge with the cursor's perpendicular coordinate inside its
\* extent; and while there is no such peer no step of the callback leaves
\* LOCAL, sends a frame or warps the cursor.
C7_EdgeSwitchIffFlushPeer ==
    [][LET x == cb.x
           y == cb.y
           w == ScreenW
           h == ScreenH
           inner == 0 < x /\ x < w - 1
           flush ==
               \E i \in 1 .. Len(computers) :
                   LET p == computers[i]
                   IN  /\ p.name # LocalName
                       /\ p.is_connected
                       /\ \/ /\ x <= 0
                             /\ p.layout_x + p.screen_width = 0
                             /\ p.layout_y <= y /\ y < p.layout_y + p.screen_height
                          \/ /\ x > 0 /\ x >= w - 1
                             /\ p.layout_x = w
                             /\ p.layout_y <= y /\ y < p.layout_y + p.screen_height
                          \/ /\ inner /\ y <= 0
                             /\ p.layout_y + p.screen_height = 0
                             /\ p.layout_x <= x /\ x < p.layout_x + p.screen_width
                          \/ /\ inner /\ y > 0 /\ y >= h - 1
                             /\ p.layout_y = h
                             /\ p.layout_x <= x /\ x < p.layout_x + p.screen_width
       IN  /\ (hpc = "m_decide" /\ hpc' # hpc /\ ~active_on_remote /\ active_client)
              => (active_on_remote' <=> flush)
           /\ (hpc \notin {"idle", "m_end"} /\ ev.kind = "move" /\ ~active_on_remote
                 /\ active_client /\ ~flush)
              => /\ ~active_on_remote'
                 /\ ev'.sent = 0
                 /\ wire' = wire
                 /\ cursor' = cursor]_vars

\* C7 witness: a move to the bottom edge, where the connected peer is flush,
\* has entered REMOTE and is about to send its SwitchScreen.
C7_Witness ==
    /\ hpc = "m_switch" /\ active_on_remote /\ captured_
    /\ cb.at_edge /\ cb.edge = "BOTTOM"

\* C8: once the secondary has gone IDLE because its cursor came back to the
\* entry edge, the primary eventually is LOCAL with suppress false (no hotkey
\* is pressed in this specification).
C8_ReturnEdgeGivesControlBack ==
    (sec.returned /\ ~sec.active) ~> (~active_on_remote /\ ~captured_)

\* C9: when the callback of an edge hit has returned and the primary is still
\* in the REMOTE episode it started (and the server thread is not in its
\* disconnect sequence, about to end the episode), that episode has sent
\* exactly one SwitchScreen, as its first frame, with the edge opposite to the
\* exit edge and the cursor's perpendicular coordinate.
C9_OneSwitchScreenPerEdgeEpisode ==
    (/\ hpc = "idle" /\ active_on_remote /\ episode.origin = "edge"
     /\ srv_pc \notin {"mark", "close", "reset_focus", "reset_capture"})
    => /\ episode.switches = 1
       /\ episode.first = "SWITCH_SCREEN"
       /\ episode.sw_pos = episode.exit_pos
       /\ <<episode.exit_edge, episode.sw_edge>> \in
             {<<"LEFT", "RIGHT">>, <<"RIGHT", "LEFT">>,
              <<"TOP", "BOTTOM">>, <<"BOTTOM", "TOP">>}

\* C10: for a MouseMove, MouseButton, MouseScroll or Key frame the secondary
\* has processed: with a whole payload it made injection calls iff it was
\* ACTIVE when it processed the frame, and if it was IDLE it injected nothing
\* and left its focus, entry edge and tracked cursor as they were.
C10_InjectIffActive ==
    rx.frame.type \in {"MOUSE_MOVE", "MOUSE_BUTTON", "MOUSE_SCROLL",
                       "KEY_PRESS", "KEY_RELEASE"}
    => /\ rx.payload_ok => (rx.calls # <<>> <=> rx.before.active)
       /\ ~rx.before.active => (rx.calls = <<>> /\ sec = rx.before)

\* C10 witness: a whole MouseButton frame arrived after the secondary had gone
\* back to IDLE at its entry edge, and was dropped.
C10_Witness ==
    /\ rx.frame.type = "MOUSE_BUTTON" /\ rx.payload_ok
    /\ rx.before.returned /\ ~rx.before.active
    /\ rx.calls = <<>> /\ sec = rx.before

C12_EntryJustInsideEdge ==
    LET on_edge(s) ==
            \/ s.entry_edge = "LEFT" /\ s.cursor_x <= 0
            \/ s.entry_edge = "RIGHT" /\ s.cursor_x >= ScreenW - 1
            \/ s.entry_edge = "TOP" /\ s.cursor_y <= 0
            \/ s.entry_edge = "BOTTOM" /\ s.cursor_y >= ScreenH - 1
        toward(e, f) ==
            \/ e = "LEFT" /\ f.dx < 0
            \/ e = "RIGHT" /\ f.dx > 0
            \/ e = "TOP" /\ f.dy < 0
            \/ e = "BOTTOM" /\ f.dy > 0
    IN  /\ (rx.frame.type = "SWITCH_SCREEN" /\ rx.payload_ok
              /\ rx.frame.edge \in Edges)
           => (sec.active /\ sec.entry_edge = rx.frame.edge /\ ~on_edge(sec))
        /\ (rx.frame.type = "MOUSE_MOVE" /\ rx.payload_ok /\ rx.before.active
              /\ ~toward(rx.before.entry_edge, rx.frame))
           => sec.active

\* C13: after the secondary has processed a whole SwitchScreen{edge, position}
\* with position inside the sender's extent, its tracked coordinate along the
\* entry edge is position * local_dim \div sender_dim, sender_dim being the
\* height (LEFT, RIGHT) or width (TOP, BOTTOM) of the last ScreenInfo received.
C13_SwitchScreenScalesPosition ==
    LET f == rx.frame
        vertical == f.edge \in {"LEFT", "RIGHT"}
        sender_dim == IF vertical THEN rx.info.height ELSE rx.info.width
        local_dim == IF vertical THEN ScreenH ELSE ScreenW
    IN  (/\ f.type = "SWITCH_SCREEN" /\ rx.payload_ok /\ f.edge \in Edges
         /\ rx.info.type = "SCREEN_INFO"
         /\ 0 <= f.position /\ f.position < sender_dim)
        => (IF vertical THEN sec.cursor_y ELSE sec.cursor_x)
              = (f.position * local_dim) \div sender_dim

\* C14: a frame written by the encoder and read back by the decoder gives the
\* event that was encoded, for every kind and for field values over the whole
\* 32-bit range; its header carries version 1, the kind, and as payload_size
\* the fixed size of the kind's payload (16, 2, 8, 12, 12, 0, 16, 5 bytes).
C14_CodecRoundTrip ==
    /\ (cli.outcome \in {"header", "frame"}) =>
          /\ cli.header.version = 1
          /\ cli.header.type = tx.event.type
          /\ cli.header.payload_size =
                (CASE tx.event.type = "MOUSE_MOVE" -> 16
                   [] tx.event.type = "MOUSE_BUTTON" -> 2
                   [] tx.event.type = "MOUSE_SCROLL" -> 8
                   [] tx.event.type = "KEY_PRESS" -> 12
                   [] tx.event.type = "KEY_RELEASE" -> 12
                   [] tx.event.type = "KEEPALIVE" -> 0
                   [] tx.event.type = "SCREEN_INFO" -> 16
                   [] tx.event.type = "SWITCH_SCREEN" -> 5)
    /\ (cli.outcome = "frame") =>
          /\ rx.frame = tx.event
          /\ rx.payload_ok
          /\ stream = <<>> /\ tx.pending = <<>>

C14_Witness ==
    /\ cli.outcome = "frame"
    /\ tx.event = SwitchScreenEvent("BOTTOM", -2147483647 - 1)
    /\ rx.frame = tx.event
    /\ cli.header.payload_size = 5

\* C15: a frame whose header version is not 1 is rejected: when the secondary
\* has taken such a frame, nothing was injected, its state is as before, and
\* the session is closed.
C15_BadVersionRejected ==
    (cli.outcome = "frame" /\ cli.header.version # 1)
    => /\ rx.calls = <<>>
       /\ sec = rx.before
       /\ ~cli.connected /\ cli.pc = "done"

\* C16: a frame of version 1 whose payload_size is not the fixed size of its
\* type (0 for Keepalive) is rejected: nothing was injected, the secondary's
\* state is as before, and the session is closed.
C16_BadPayloadSizeRejected ==
    (/\ cli.outcome = "frame" /\ cli.header.version = 1
     /\ cli.header.type \in {"MOUSE_MOVE", "MOUSE_BUTTON", "MOUSE_SCROLL",
                              "KEY_PRESS", "KEY_RELEASE", "KEEPALIVE",
                              "SCREEN_INFO", "SWITCH_SCREEN"}
     /\ cli.header.payload_size # PayloadSize(cli.header.type))
    => /\ rx.calls = <<>>
       /\ sec = rx.before
       /\ ~cli.connected /\ cli.pc = "done"

\* C17: a header read that gives up before the 9 bytes of the header have
\* arrived has taken no byte off the stream.
C17_HeaderTimeoutConsumesNothing ==
    (cli.outcome = "timeout") => ~cli.dropped

\* C18: while a client is connected and the server thread is in its keep
\* alive loop, the primary has not let more than one time unit (10 000 ms,
\* twice the keepalive interval) pass since it last sent anything.
C18_KeepaliveWhenSilent ==
    (active_client /\ srv_pc = "keep") => now - episode.last_send <= 1

\* C19: a connected secondary whose receive loop is running has received a
\* frame, or connected, within the idle timeout (30 000 ms) and the one time
\* unit it may take to notice: after that the session is closed.
C19_IdleTimeoutCloses ==
    (cli.connected /\ cli.pc \in {"header", "payload"})
    => now - cli.last_recv <= IdleTimeout + 1

\* C20: when the client thread has ended by itself (failed connect or closed
\* session, the user not having pressed Disconnect), a new connect attempt
\* is made before more than one time unit (10 000 ms, over three times the
\* retry interval) has passed.
C20_ReconnectAfterClose ==
    (cli.pc = "done" /\ cli.ui = "idle") => now - cli.closed_at <= 1

\* C21: once a send on the session has failed, the server thread eventually
\* is back in its accept loop (or the server has been stopped).
C21_LostSessionReaccepts ==
    episode.lost ~> (srv_pc \in {"loop", "select"} \/ ~server_running)

C23_OneOpenSession ==
    active_client => srv_pc \in {"keep", "mark", "close"}

C23_Witness ==
    /\ active_client /\ srv_pc = "keep"
    /\ client_ip = PeerIp /\ computers[2].is_connected
    /\ active_on_remote /\ hpc = "idle"

\* C24: a peer whose last datagram was received at t (t being the instant it
\* arrived, or the instant recvfrom returned it) and not refreshed since is not
\* in the topology at t + 10 001 ms, an instant that falls into the current
\* sleep of the discovery thread.
C24_StalePeerAbsent ==
    \A i \in 1 .. Len(computers) :
        LET n == computers[i].name IN
        (/\ n \in DOMAIN disc.heard \ {LocalName}
         /\ disc.pc = "sleep"
         /\ \A k \in 1 .. Len(disc.inbox) : disc.inbox[k].name # n)
        => \A t \in {disc.heard[n], computers[i].last_seen} :
              ~(/\ disc.now <= t + 10001
                /\ t + 10001 < disc.now + DISCOVERY_INTERVAL_MS)

\* C25: a step that adds a computer to the topology puts it at layout_y = 0
\* and at layout_x = the largest layout_x + screen_width of the computers
\* already there.
C25_NewPeerRightOfRightmost ==
    [][Len(computers') = Len(computers) + 1 =>
         LET rights == {computers[i].layout_x + computers[i].screen_width :
                          i \in 1 .. Len(computers)}
             new == computers'[Len(computers')]
         IN  /\ new.layout_y = 0
             /\ new.layout_x \in rights
             /\ \A r \in rights : r <= new.layout_x]_vars

\* C27: an event that the hook has handled while the primary was and still is
\* REMOTE with a session, whose send did not fail and which is neither a hotkey
\* (F8, Scroll Lock, Ctrl+Alt+Esc) nor a move without displacement, was
\* forwarded as one frame.
C27_RemoteEventsForwarded ==
    (/\ ev.ret \in {"block", "pass"} /\ ev.remote /\ ~ev.failed
     /\ active_on_remote /\ active_client
     /\ ev.vk \notin {"VK_F8", "VK_SCROLL", "VK_ESCAPE"}
     /\ ev.kind = "move" => ev.called)
    => ev.sent = 1

\* C28: for a key, button or scroll event that the hook has decided to block
\* or to pass on, the callback of the event was invoked.
C28_CallbackForEveryEvent ==
    (ev.kind \in {"key", "button", "scroll"} /\ ev.ret \in {"block", "pass"})
    => ev.called

\* C29: capture_input is never called inside a scope of active_client_mutex.
C29_NoSuppressUnderSendLock == ~mtx.suppress_under_send

\* C30: every acquisition of one of the two mutexes made while the other is
\* held takes layout_mutex first and active_client_mutex second.
C30_LayoutBeforeSend == \A p \in mtx.nested : p = <<"layout", "send">>

\* a nested acquisition has happened while a session was open and a callback
\* of the hook thread was between two of its lock scopes
C30_Witness ==
    /\ <<"layout", "send">> \in mtx.nested
    /\ active_client /\ hpc = "m_decide" /\ srv_pc = "keep"

\* C26: once WM_DESTROY has cleared the running flags, the hook, server and
\* discovery threads are eventually joined and the shutdown completes.
C26_ShutdownCompletes == (ui_pc = "destroy_stop") ~> (ui_pc = "destroyed")

\* C31: every step that changes the primary's focus (active_on_remote) or
\* suppress (captured_) is a step of the hook thread.
C31_FocusWrittenByHookThread ==
    [][(active_on_remote' # active_on_remote \/ captured_' # captured_)
         => HookThread]_vars

\* C32: no event that the hook has handled while the primary was and still is
\* REMOTE with a session was both forwarded to the secondary and passed on to
\* the local applications.
C32_ForwardedEventsBlocked ==
    ~(/\ hpc = "idle" /\ ev.remote /\ active_on_remote /\ active_client
      /\ srv_pc = "keep"
      /\ ev.sent = 1 /\ ev.ret = "pass")

\* C33: while the server runs with its hooks installed, in every state in
\* which the hook thread is outside its callbacks, the server thread is outside
\* its disconnect and stop sequences and the UI thread is idle, suppress
\* (captured_) implies an open session (active_client valid).
C33_SuppressImpliesSession ==
    (/\ hooks /\ hpc = "idle" /\ ui_pc = "idle"
     /\ server_running /\ srv_pc \in {"loop", "select", "keep"})
    => (captured_ => active_client)

\* C34: while the session accepted by the server thread is open, the topology
\* holds a computer with the client's address and is_connected = true.
C34_OpenSessionHasConnectedRecord ==
    (active_client /\ srv_pc = "keep")
    => \E i \in 1 .. Len(computers) :
          computers[i].ip = client_ip /\ computers[i].is_connected

C36_ScreenInfoFirst == con.first \in {"none", "SCREEN_INFO"}

\* C37: a console secondary connected to a running console primary is never
\* declared dead by the idle timeout unless the network dropped the
\* connection, and while the connection works the time since the last frame
\* it received stays within one second of the keepalive period.
C37_NoIdleTimeoutOnWorkingLink ==
    /\ con.c_timed_out => con.lost
    /\ (con.c_connected /\ con.sock = "up")
          => con.now - con.c_last <= KEEPALIVE_SECONDS + 1

\* a session without any input that is older than the idle limit
C37_Witness ==
    /\ con.c_connected /\ con.sock = "up" /\ con.pc = "session"
    /\ con.g_running /\ ~con.active_on_client_
    /\ con.first = "SCREEN_INFO"
    /\ con.now > IDLE_SECONDS /\ con.last_keepalive_sent_ > IDLE_SECONDS
    /\ con.c_last > IDLE_SECONDS


\* C38: once the user has pressed Disconnect and the UI thread waits in
\* join, client_connected stays false, so that the client thread leaves its
\* receive loop at the next test of the flag; the connecting thread does not
\* set it back to true.
C38_DisconnectNotOverwritten ==
    cli.ui = "joining" => ~cli.connected


\* C39: while a drag is in progress, selected_index is an index of computers
\* and the record it designates is the peer the user grabbed, not another
\* peer and not the local computer, whatever the discovery thread inserts or
\* removes meanwhile.
C39_DragKeepsItsPeer ==
    layout.dragging =>
       /\ layout.selected_index \in 0 .. Len(computers) - 1
       /\ computers[layout.selected_index + 1].name = layout.grabbed
       /\ layout.grabbed # LocalName

\* C40: a discovery packet from a peer already in the topology leaves the
\* number of records, that peer's layout_x, layout_y and is_connected, and
\* every other computer's record as they were, and the names stay distinct.
C40_KnownPeerUpdate ==
    [][(/\ disc.pc = "recv" /\ disc.inbox # <<>> /\ disc'.inbox # disc.inbox
        /\ \E i \in 1 .. Len(computers) :
              computers[i].name = Head(disc.inbox).name)
       => /\ Len(computers') = Len(computers)
          /\ \A i \in 1 .. Len(computers) :
                /\ computers'[i].name = computers[i].name
                /\ computers'[i].layout_x = computers[i].layout_x
                /\ computers'[i].layout_y = computers[i].layout_y
                /\ computers'[i].is_connected = computers[i].is_connected
                /\ computers[i].name # Head(disc.inbox).name
                      => computers'[i] = computers[i]
          /\ \A i, j \in 1 .. Len(computers') :
                computers'[i].name = computers'[j].name => i = j]_vars

\* a connected peer that the user has dragged is heard again with another
\* screen size
C40_Witness ==
    /\ disc.pc = "recv" /\ disc.inbox = <<>>
    /\ Len(computers) = 3
    /\ computers[2].name = PeerName /\ computers[2].is_connected
    /\ computers[2].layout_x = DragX /\ computers[2].layout_y = 1
    /\ computers[2].screen_width = 2 * ScreenW
    /\ computers[2].last_seen = disc.now /\ disc.now > 0

================================================================
